---------------------------- MODULE Spec2Model ----------------------------
(***************************************************************************)
(* bug-finder-cli: the bug file store, the per-bug processing loop of      *)
(* main, the architecture-doc ensurer and the assistant session            *)
(* orchestrator, as a state machine.                                       *)
(*                                                                         *)
(* JSON values are tagged records: [t |-> "string", v |-> s],              *)
(* [t |-> "number", v |-> n], [t |-> "array", v |-> seq],                  *)
(* [t |-> "object", v |-> function from keys to values], [t |-> "null"],   *)
(* and [t |-> "undefined"] for a property that is absent.  An in-memory    *)
(* BugRecord is a function from its six keys to such values; a key whose   *)
(* value is undefined is dropped when the record is serialized.            *)
(*                                                                         *)
(* A text (a report, a message content, a delta) is a sequence of pieces;  *)
(* concatenation of strings is concatenation of sequences.                 *)
(***************************************************************************)
EXTENDS Integers, Sequences, FiniteSets, TLC

\* ------------------------------------------------------------------ bounds

\* Number of entries of the bug file.
NumBugs == 2
\* Number of runs of main over the same bug file.
MaxRuns == 2
\* Number of message events the assistant emits during one sendAndWait.
MaxEvents == 2

\* ------------------------------------------------------------- JSON values

JStr(s) == [t |-> "string", v |-> s]
JNum(n) == [t |-> "number", v |-> n]
JArr(a) == [t |-> "array", v |-> a]
JObj(f) == [t |-> "object", v |-> f]
JNull == [t |-> "null"]
JUndef == [t |-> "undefined"]

\* record.key of a JSON object: undefined when the key is absent.
Get(o, k) == IF k \in DOMAIN o.v THEN o.v[k] ELSE JUndef

\* The strings without surrounding blanks that inputs are built from.
Words == {"T", "D", "X", "Y", "Z", "/r1", "/r2", "/img", "todo", "in-progress",
          "done", "bogus"}

\* A word with a blank on either side, as a user or the assistant may send it.
Padded(w) == " " \o w \o " "

\* value.trim() on the strings of the model: " " is the blank string, and a
\* padded word loses its blanks.
Trim(s) ==
  IF s = " " THEN ""
  ELSE IF \E w \in Words : s = Padded(w)
       THEN CHOOSE w \in Words : s = Padded(w)
       ELSE s

\* JSON.stringify followed by JSON.parse of a value held in memory: object
\* keys whose value is undefined are dropped, everything else is kept.
RECURSIVE Stringify(_)
Stringify(val) ==
  CASE val.t = "object" ->
         JObj([k \in {q \in DOMAIN val.v : val.v[q].t # "undefined"} |->
                 Stringify(val.v[k])])
    [] val.t = "array" ->
         JArr([i \in 1..Len(val.v) |->
                 IF val.v[i].t = "undefined" THEN JNull ELSE Stringify(val.v[i])])
    [] OTHER -> val

\* ------------------------------------------------ lib/bug: parseBugInput

\* Mutant of IsNonEmptyString: a blank string passes.
IsAnyString(val) == val.t = "string"

IsNonEmptyString(val) == val.t = "string" /\ Trim(val.v) # ""

requireNonEmptyString(val) == JStr(Trim(val.v))

\* Mutant of IsStatus: any non-blank string passes as a status.
IsStatusUnchecked(val) == IsNonEmptyString(val)

IsStatus(val) ==
  IsNonEmptyString(val) /\ Trim(val.v) \in {"todo", "in-progress", "done"}

IsNonEmptyStringArray(val) ==
  /\ val.t = "array"
  /\ Len(val.v) > 0
  /\ \A i \in 1..Len(val.v) : IsNonEmptyString(val.v[i])

IsOptionalStringArray(val) ==
  \/ val.t = "undefined"
  \/ /\ val.t = "array"
     /\ \A i \in 1..Len(val.v) : IsNonEmptyString(val.v[i])

requireStringArray(val) ==
  JArr([i \in 1..Len(val.v) |-> requireNonEmptyString(val.v[i])])

ScoreMin == 0
ScoreMax == 1

\* Mutant of IsScore: the upper bound is exclusive.
IsScoreBelowMax(val) == val.t = "number" /\ val.v >= ScoreMin /\ val.v < ScoreMax

IsScore(val) == val.t = "number" /\ val.v >= ScoreMin /\ val.v <= ScoreMax

\* optionalBugDetails accepts undefined, null, or an object whose fields
\* pass its checks; suggestedFixes must be a non-empty array here.
IsOptionalBugDetails(val) ==
  \/ val.t \in {"undefined", "null"}
  \/ /\ val.t = "object"
     /\ IsScore(Get(val, "confidenceScore"))
     /\ IsNonEmptyString(Get(val, "probableCause"))
     /\ IsNonEmptyString(Get(val, "reason"))
     /\ IsNonEmptyStringArray(Get(val, "suggestedFixes"))

optionalBugDetails(val) ==
  IF val.t \in {"undefined", "null"} THEN val
  ELSE JObj([probableCause |-> requireNonEmptyString(Get(val, "probableCause")),
             reason |-> requireNonEmptyString(Get(val, "reason")),
             suggestedFixes |-> requireStringArray(Get(val, "suggestedFixes")),
             confidenceScore |-> Get(val, "confidenceScore"),
             evidence |-> Get(val, "evidence")])

\* The field optionalBugDetails names in the error it throws, in the order
\* the code checks them; "" when the value is accepted.
optionalBugDetailsError(val) ==
  CASE val.t \in {"undefined", "null"} -> ""
    [] val.t # "object" -> "bug-details"
    [] ~IsScore(Get(val, "confidenceScore")) -> "bug-details.confidenceScore"
    [] ~IsNonEmptyString(Get(val, "probableCause")) -> "bug-details.probableCause"
    [] ~IsNonEmptyString(Get(val, "reason")) -> "bug-details.reason"
    [] ~IsNonEmptyStringArray(Get(val, "suggestedFixes")) -> "bug-details.suggestedFixes"
    [] OTHER -> ""

\* The first field parseBugRecord rejects, in the order the code evaluates
\* them; "" when the item is accepted.
parseBugRecordError(raw) ==
  CASE raw.t # "object" -> "item"
    [] Get(raw, "localRepoUrls").t # "undefined"
         /\ ~IsNonEmptyStringArray(Get(raw, "localRepoUrls")) -> "localRepoUrls"
    [] Get(raw, "localRepoUrls").t = "undefined"
         /\ ~IsNonEmptyString(Get(raw, "localRepoUrl")) -> "localRepoUrl"
    [] ~IsNonEmptyString(Get(raw, "title")) -> "title"
    [] ~IsNonEmptyString(Get(raw, "description")) -> "description"
    [] Get(raw, "status").t # "undefined" /\ ~IsStatus(Get(raw, "status")) -> "status"
    [] ~IsOptionalBugDetails(Get(raw, "bug-details")) ->
         optionalBugDetailsError(Get(raw, "bug-details"))
    [] ~IsOptionalStringArray(Get(raw, "imagePaths")) -> "imagePaths"
    [] OTHER -> ""

\* The BugRecord parseBugRecord returns for an accepted item: all six keys,
\* the optional ones undefined when absent.
parseBugRecord(raw) ==
  ("title" :> requireNonEmptyString(Get(raw, "title")))
  @@ ("description" :> requireNonEmptyString(Get(raw, "description")))
  @@ ("localRepoUrls" :>
        IF Get(raw, "localRepoUrls").t # "undefined"
        THEN requireStringArray(Get(raw, "localRepoUrls"))
        ELSE JArr(<<requireNonEmptyString(Get(raw, "localRepoUrl"))>>))
  @@ ("status" :>
        IF Get(raw, "status").t = "undefined" THEN JUndef
        ELSE requireNonEmptyString(Get(raw, "status")))
  @@ ("bug-details" :> optionalBugDetails(Get(raw, "bug-details")))
  @@ ("imagePaths" :>
        IF Get(raw, "imagePaths").t = "undefined" THEN JUndef
        ELSE requireStringArray(Get(raw, "imagePaths")))

\* parseBugInput accepts a non-empty array whose every item is accepted.
parseBugInputOk(raw) ==
  /\ raw.t = "array"
  /\ Len(raw.v) > 0
  /\ \A i \in 1..Len(raw.v) : parseBugRecordError(raw.v[i]) = ""

\* What the error parseBugInput throws names: "array" and "empty" for the
\* two errors about the whole input, else what the first rejected item's
\* error names; "" when the input is accepted.
parseBugInputError(raw) ==
  CASE raw.t # "array" -> "array"
    [] Len(raw.v) = 0 -> "empty"
    [] \E i \in 1..Len(raw.v) : parseBugRecordError(raw.v[i]) # "" ->
         LET bad == {i \in 1..Len(raw.v) : parseBugRecordError(raw.v[i]) # ""}
             first == CHOOSE i \in bad : \A j \in bad : i <= j
         IN parseBugRecordError(raw.v[first])
    [] OTHER -> ""

parseBugInput(raw) == [i \in 1..Len(raw.v) |-> parseBugRecord(raw.v[i])]

\* Mutant of writeBugInput: the first record is written, not the array.
writeBugInputAsObject(arr) == Stringify(JObj(arr[1]))

\* writeBugInput: the file content is JSON.stringify of the array.
writeBugInput(arr) ==
  JArr([i \in 1..Len(arr) |-> Stringify(JObj(arr[i]))])

\* ------------------------------------------------ index.ts: parseFindings

\* The values a field of a JSON document may hold, each with the text that
\* spells it; the undefined value spells the absent key.
CauseChoices ==
  { [text |-> "cause:'X' ", v |-> JStr("X")],
    [text |-> "cause:' X ' ", v |-> JStr(Padded("X"))],
    [text |-> "cause:' ' ", v |-> JStr(" ")],
    [text |-> "cause:1 ", v |-> JNum(1)],
    [text |-> "", v |-> JUndef] }

ReasonChoices ==
  { [text |-> "reason:'Y' ", v |-> JStr("Y")],
    [text |-> "reason:'' ", v |-> JStr("")],
    [text |-> "", v |-> JUndef] }

FixesChoices ==
  { [text |-> "fixes:['Z'] ", v |-> JArr(<<JStr("Z")>>)],
    [text |-> "fixes:[] ", v |-> JArr(<<>>)],
    [text |-> "fixes:['Z',' '] ", v |-> JArr(<<JStr("Z"), JStr(" ")>>)],
    [text |-> "fixes:[1] ", v |-> JArr(<<JNum(1)>>)],
    [text |-> "fixes:'Z' ", v |-> JStr("Z")],
    [text |-> "fixes:null ", v |-> JNull],
    [text |-> "", v |-> JUndef] }

ScoreChoices ==
  { [text |-> "score:0 ", v |-> JNum(0)],
    [text |-> "score:1 ", v |-> JNum(1)],
    [text |-> "score:2 ", v |-> JNum(2)],
    [text |-> "score:-1 ", v |-> JNum(-1)],
    [text |-> "score:'1' ", v |-> JStr("1")],
    [text |-> "score:null ", v |-> JNull],
    [text |-> "", v |-> JUndef] }

EvidenceChoices ==
  { [text |-> "evidence:'E' ", v |-> JStr("E")],
    [text |-> "", v |-> JUndef] }

\* The JSON documents of the model: every findings-like object the choices
\* spell, and four documents that are no object.
Documents ==
  { [text |-> "{ " \o c.text \o r.text \o f.text \o s.text \o e.text \o "}",
     v |-> Stringify(JObj([probableCause |-> c.v, reason |-> r.v,
                           suggestedFixes |-> f.v, confidenceScore |-> s.v,
                           evidence |-> e.v]))] :
      c \in CauseChoices, r \in ReasonChoices, f \in FixesChoices,
      s \in ScoreChoices, e \in EvidenceChoices }
  \cup { [text |-> "null", v |-> JNull], [text |-> "[]", v |-> JArr(<<>>)],
         [text |-> "'s'", v |-> JStr("s")], [text |-> "7", v |-> JNum(7)] }

DocumentTexts == { d.text : d \in Documents }

\* The pieces the assistant's texts are made of: "head" is
\* {"probableCause":"X","reason":"Y","confidenceScore":1, and "tail" is
\* "suggestedFixes":["Z"]} (the two halves of one findings object),
\* "whole" is the complete object
\* {"probableCause":"X","reason":"Y","confidenceScore":1,"suggestedFixes":[]},
\* and every text of Documents is a piece.
Pieces == {"head", "tail", "whole"} \cup DocumentTexts

FindingsJSON(fixes) ==
  JObj([probableCause |-> JStr("X"), reason |-> JStr("Y"),
        suggestedFixes |-> JArr(fixes), confidenceScore |-> JNum(1)])

\* JSON.parse of a text: the complete documents the pieces can spell; every
\* other text (a truncated object, two documents in a row) is a SyntaxError.
JSONParseOk(text) ==
  \/ text \in {<<"head", "tail">>, <<"whole">>}
  \/ Len(text) = 1 /\ text[1] \in DocumentTexts

JSONParse(text) ==
  IF text = <<"whole">> THEN FindingsJSON(<<>>)
  ELSE IF text = <<"head", "tail">> THEN FindingsJSON(<<JStr("Z")>>)
  ELSE (CHOOSE d \in Documents : d.text = text[1]).v

\* The rule of parseFindings the report violates, in the order the code
\* checks them; "" when the report is accepted.  suggestedFixes only has to
\* be an array: an empty one passes.
parseFindingsError(report) ==
  CASE Len(report) = 0 -> "empty"
    [] ~JSONParseOk(report) -> "json"
    [] JSONParse(report).t # "object" -> "object"
    [] ~IsScore(Get(JSONParse(report), "confidenceScore")) -> "confidenceScore"
    [] Get(JSONParse(report), "suggestedFixes").t # "array" -> "suggestedFixes"
    [] ~IsNonEmptyString(Get(JSONParse(report), "probableCause")) -> "probableCause"
    [] ~IsNonEmptyString(Get(JSONParse(report), "reason")) -> "reason"
    [] \E i \in 1..Len(Get(JSONParse(report), "suggestedFixes").v) :
         ~IsNonEmptyString(Get(JSONParse(report), "suggestedFixes").v[i])
         -> "suggestedFixes[i]"
    [] OTHER -> ""

parseFindings(report) ==
  LET record == JSONParse(report) IN
  JObj([probableCause |-> requireNonEmptyString(Get(record, "probableCause")),
        reason |-> requireNonEmptyString(Get(record, "reason")),
        suggestedFixes |-> requireStringArray(Get(record, "suggestedFixes")),
        confidenceScore |-> Get(record, "confidenceScore"),
        evidence |-> Get(record, "evidence")])

\* ------------------------------------------------------- index.ts: main

\* bug.status ?? "todo"
currentStatus(bug) == IF bug["status"].t = "undefined" THEN "todo" ELSE bug["status"].v

\* Mutant of ShouldSkip: the skip of done entries is missing.
ShouldSkipNever(bug) == FALSE

\* The guard of the skip at the top of the loop body.
ShouldSkip(bug) == currentStatus(bug) = "done"

\* Mutant of inProgressBug: the entry is reset to todo when picked up.
inProgressBugAsTodo(bug) == [bug EXCEPT !["status"] = JStr("todo")]

\* { ...bug, status: "in-progress" }
inProgressBug(bug) == [bug EXCEPT !["status"] = JStr("in-progress")]

\* Array.from(new Set(resolved)): first occurrences, in order.
RECURSIVE Dedupe(_)
Dedupe(s) ==
  IF Len(s) = 0 THEN <<>>
  ELSE LET init == Dedupe(SubSeq(s, 1, Len(s) - 1))
           last == s[Len(s)]
       IN IF \E i \in 1..Len(init) : init[i] = last THEN init ELSE Append(init, last)

\* The repoUrl strings of a record, as a sequence of paths.
RepoUrls(bug) == [i \in 1..Len(bug["localRepoUrls"].v) |-> bug["localRepoUrls"].v[i].v]

\* normalizedBug: the resolved repositories; imagePaths undefined when empty.
normalizedBug(bug, paths, images) ==
  [bug EXCEPT !["localRepoUrls"] = JArr([i \in 1..Len(paths) |-> JStr(paths[i])]),
              !["imagePaths"] = IF Len(images) > 0
                                THEN JArr([i \in 1..Len(images) |-> JStr(images[i])])
                                ELSE JUndef]

\* Mutant of doneBug: the findings are stored, the status is left as it was.
doneBugWithoutStatus(bug, findings) == [bug EXCEPT !["bug-details"] = findings]

\* { ...normalizedBug, status: "done", "bug-details": findings }
doneBug(bug, findings) ==
  [bug EXCEPT !["status"] = JStr("done"), !["bug-details"] = findings]

\* ---------------------------------------------------------------- state

VARIABLES
  file,            \* the bug file on disk: a JSON value
  docs,            \* the repositories whose bug-finder.md exists as a file
  run,             \* number of the current run of main
  pc,              \* position of main
  exitCode,        \* process.exitCode
  bugs,            \* main's in-memory array of BugRecords
  readBugs,        \* the array as readBugInput returned it in this run
  index,           \* loop index of main (from 1)
  repoPaths,       \* resolved repositories of the current bug
  imagePaths,      \* resolved images of the current bug
  docIdx,          \* loop index of ensureBugFinderDocs (from 1)
  report,          \* what runCopilotSession returned to main
  task,            \* the assistant task in progress: none, doc or analysis
  spc,             \* position inside the task's function
  client,          \* the task's CopilotClient: none, constructed, started, stopped
  session,         \* the task's session: none, created, destroyed
  streamedOutput,  \* registerSessionListeners' closure state
  reportContent,   \* registerSessionListeners' closure state
  nEvents,         \* events delivered during the current sendAndWait
  finalReport,     \* runCopilotSession's local
  primary,         \* how the function's try block completed
  destroyRes,      \* none, or how session.destroy() ended: ok, threw
  stopRes,         \* none, or how client.stop() ended: ok, errors, threw
  result,          \* how the task's function completed
  acts,            \* per bug, the steps performed for it in this run
  docSends,        \* per repository, doc-generation sends in this run
  failedStep,      \* the step whose error ended this run ("" when none)
  failedBug,       \* the entry being processed when the run failed (0: none)
  prevFailedBug,   \* failedBug of the previous run
  writes,          \* completed writes of the bug file in this run
  firstMessage     \* content of the first non-empty assistant.message event
                   \* of the current sendAndWait

\* The state of the output module, the closure state of the listeners that
\* drives it, and the call and result of a helper applied on its own.
VARIABLES
  debugLog,          \* config.debugLog.enabled as registerSessionListeners read it
  reasoningActive,   \* closure state of registerSessionListeners
  endedWithNewline,  \* module state of lib/output
  stdout,            \* the chunks written to process.stdout by the current session
  messages,          \* the message events the listeners of the session received
  call,              \* the helper applied and its arguments
  ret,               \* what the helper returned or threw
  cwd,               \* process.cwd()
  bugJsonPath,       \* main's bugJsonPath
  bugFileDir,        \* main's bugFileDir
  targets            \* the paths writeFile was called with, in order

mainVars == <<file, docs, run, pc, exitCode, bugs, readBugs, index, repoPaths,
              imagePaths, docIdx, report>>
taskVars == <<task, spc, client, session, streamedOutput, reportContent,
              nEvents, finalReport, primary, destroyRes, stopRes, result>>
histVars == <<acts, docSends, failedStep, failedBug, prevFailedBug, writes,
              firstMessage>>
outVars == <<debugLog, reasoningActive, endedWithNewline, stdout>>
pathVars == <<cwd, bugJsonPath, bugFileDir, targets>>
pureVars == <<call, ret, pathVars>>
sideVars == <<outVars, messages, pureVars>>
vars == <<mainVars, taskVars, histVars, sideVars>>

Repos == {"/r1", "/r2"}

\* The inputs: localRepoUrls and imagePaths of entry i of the bug file.
RepoUrlsOf(i) == IF i % 2 = 1 THEN <<"/r1">> ELSE <<"/r2", "/r1", "/r2">>
ImageUrlsOf(i) == IF i % 2 = 1 THEN <<>> ELSE <<"/img">>

OldFinding ==
  JObj([probableCause |-> JStr("old"), reason |-> JStr("Y"),
        suggestedFixes |-> JArr(<<JStr("Z")>>), confidenceScore |-> JNum(0)])

BaseItem(i) ==
  ("title" :> JStr("T")) @@ ("description" :> JStr("D"))
  @@ ("localRepoUrls" :> JArr([k \in 1..Len(RepoUrlsOf(i)) |-> JStr(RepoUrlsOf(i)[k])]))
  @@ (IF Len(ImageUrlsOf(i)) = 0 THEN <<>>
      ELSE "imagePaths" :> JArr([k \in 1..Len(ImageUrlsOf(i)) |-> JStr(ImageUrlsOf(i)[k])]))

\* The entries a user's bug file may hold at position i: status omitted,
\* todo with a null bug-details, in-progress, or done with a finding.
InitialItems(i) ==
  { JObj(BaseItem(i)),
    JObj(BaseItem(i) @@ ("status" :> JStr("todo")) @@ ("bug-details" :> JNull)),
    JObj(BaseItem(i) @@ ("status" :> JStr("in-progress"))),
    JObj(BaseItem(i) @@ ("status" :> JStr("done")) @@ ("bug-details" :> OldFinding)) }

InitialFiles ==
  { JArr(a) : a \in { f \in [1..NumBugs -> UNION {InitialItems(i) : i \in 1..NumBugs}] :
                        \A i \in 1..NumBugs : f[i] \in InitialItems(i) } }

NoCompletion == [kind |-> "none", value |-> <<>>]
Return(text) == [kind |-> "return", value |-> text]
Throw(what) == [kind |-> "throw", value |-> <<what>>]

NoActs == [begin |-> 0, resolve |-> 0, docgen |-> 0, images |-> 0, start |-> 0,
           session |-> 0, listen |-> 0, send |-> 0, rejected |-> 0, collect |-> 0,
           destroy |-> 0, stop |-> 0, parse |-> 0]

Did(what) == acts' = [acts EXCEPT ![index][what] = @ + 1]

\* ------------------------------------------------------------- lib/output

\* The output state an operation of lib/output works on: what the session
\* has written to process.stdout so far, and endedWithNewline.  A chunk
\* records its text and the kind of call that wrote it: "report" and
\* "thinking" for the two writeStdout calls of the listeners, "status" for
\* a function of lib/logging, "session" for a line break the session code
\* asks for itself.
Out == [stdout |-> stdout, ended |-> endedWithNewline]

\* value.endsWith("\n")
EndsWithNewline(value) == value # <<>> /\ value[Len(value)] = "\n"

ensureLineBreak(o, streamName, by) ==
  IF o.ended THEN o
  ELSE [stdout |-> IF streamName = "stdout"
                   THEN Append(o.stdout, [by |-> by, text |-> <<"\n">>])
                   ELSE o.stdout,
        ended |-> TRUE]

\* process.stdout.write(value); updateState("stdout", value).
writeStdout(o, value, by) ==
  IF value = <<>> THEN o
  ELSE [stdout |-> Append(o.stdout, [by |-> by, text |-> value]),
        ended |-> EndsWithNewline(value)]

\* status, toolStatus, intentStatus, warnStatus and errorStatus: each is
\* writeStderrLine(message), that is ensureLineBreak("stdout"),
\* ensureLineBreak("stderr") and writeStderr(message + "\n").
writeStderrLine(o) ==
  [ensureLineBreak(ensureLineBreak(o, "stdout", "status"), "stderr", "status")
     EXCEPT !.ended = TRUE]

\* beginReasoning and endReasoning of registerSessionListeners, on the
\* output state; both leave reasoningActive to the handler.
beginReasoning(o) ==
  IF ~reasoningActive THEN ensureLineBreak(o, "stdout", "session") ELSE o

endReasoning(o, doubleBreak) ==
  IF ~reasoningActive THEN o
  ELSE LET once == ensureLineBreak(o, "stdout", "session")
       IN IF doubleBreak THEN ensureLineBreak(once, "stdout", "session") ELSE once

\* The output state after an operation.
SetOut(o) ==
  /\ stdout' = o.stdout
  /\ endedWithNewline' = o.ended

\* The settings of config.debugLog.enabled.
DebugLogSettings == BOOLEAN

TaskIdle ==
  /\ task' = "none"
  /\ spc' = "idle"
  /\ client' = "none"
  /\ session' = "none"
  /\ streamedOutput' = FALSE
  /\ reportContent' = <<>>
  /\ nEvents' = 0
  /\ finalReport' = <<>>
  /\ primary' = NoCompletion
  /\ destroyRes' = "none"
  /\ stopRes' = "none"
  /\ result' = NoCompletion

\* A call of generateBugFinderDoc or runCopilotSession: fresh locals.
TaskCall(kind) ==
  /\ task' = kind
  /\ spc' = "start"
  /\ client' = "none"
  /\ session' = "none"
  /\ streamedOutput' = FALSE
  /\ reportContent' = <<>>
  /\ nEvents' = 0
  /\ finalReport' = <<>>
  /\ primary' = NoCompletion
  /\ destroyRes' = "none"
  /\ stopRes' = "none"
  /\ result' = NoCompletion

NoCall == [fn |-> "none"]

\* Nothing was written yet, and no helper is applied on its own.
OutIdle ==
  /\ debugLog = FALSE
  /\ reasoningActive = FALSE
  /\ endedWithNewline = TRUE
  /\ stdout = <<>>

\* The paths of main are not looked at.
PathIdle ==
  /\ cwd = <<>>
  /\ bugJsonPath = <<>>
  /\ bugFileDir = <<>>
  /\ targets = <<>>

PureIdle ==
  /\ call = NoCall
  /\ ret = NoCompletion
  /\ PathIdle

SideIdle == OutIdle /\ messages = <<>> /\ PureIdle

\* The process before main has run: the bug file is one of files.
MainStart(files) ==
  /\ file \in files
  /\ docs = {}
  /\ run = 1
  /\ pc = "start"
  /\ exitCode = 0
  /\ bugs = <<>>
  /\ readBugs = <<>>
  /\ index = 1
  /\ repoPaths = <<>>
  /\ imagePaths = <<>>
  /\ docIdx = 1
  /\ report = <<>>
  /\ task = "none"
  /\ spc = "idle"
  /\ client = "none"
  /\ session = "none"
  /\ streamedOutput = FALSE
  /\ reportContent = <<>>
  /\ nEvents = 0
  /\ finalReport = <<>>
  /\ primary = NoCompletion
  /\ destroyRes = "none"
  /\ stopRes = "none"
  /\ result = NoCompletion
  /\ acts = [i \in 1..NumBugs |-> NoActs]
  /\ docSends = [r \in Repos |-> 0]
  /\ failedStep = ""
  /\ failedBug = 0
  /\ prevFailedBug = 0
  /\ writes = 0
  /\ firstMessage = <<>>

Init ==
  /\ MainStart(InitialFiles)
  /\ SideIdle

\* Mutant of Fail: the top-level catch logs the error and leaves the exit
\* code alone.
FailWithoutExitCode(step, inBug) ==
  /\ pc' = "exited"
  /\ exitCode' = exitCode
  /\ failedStep' = step
  /\ failedBug' = IF inBug THEN index ELSE 0

\* Mutant of Fail: the error is recorded and the loop goes on with the write
\* that ends the entry.
FailAndContinue(step, inBug) ==
  /\ pc' = "writeDone"
  /\ exitCode' = 1
  /\ failedStep' = step
  /\ failedBug' = IF inBug THEN index ELSE 0

\* An error escapes main: the top-level catch sets exitCode 1.  `inBug` says
\* whether the error came from a step after the entry's in-progress write.
Fail(step, inBug) ==
  /\ pc' = "exited"
  /\ exitCode' = 1
  /\ failedStep' = step
  /\ failedBug' = IF inBug THEN index ELSE 0

\* ------------------------------------------------------------ main: steps

\* readBugInput: JSON.parse of the file, then parseBugInput.
ReadBugInput ==
  /\ pc = "start"
  /\ IF parseBugInputOk(file)
     THEN /\ bugs' = parseBugInput(file)
          /\ readBugs' = parseBugInput(file)
          /\ index' = 1
          /\ pc' = "loop"
          /\ UNCHANGED <<exitCode, failedStep, failedBug>>
     ELSE /\ Fail("readBugInput: " \o parseBugInputError(file), FALSE)
          /\ UNCHANGED <<bugs, readBugs, index>>
  /\ UNCHANGED <<file, docs, run, repoPaths, imagePaths, docIdx, report>>
  /\ UNCHANGED <<taskVars, acts, docSends, prevFailedBug, firstMessage, writes>>
  /\ UNCHANGED sideVars

\* The for loop ran out of entries: main returns, exit code 0.
LoopEnd ==
  /\ pc = "loop"
  /\ index > Len(bugs)
  /\ pc' = "exited"
  /\ UNCHANGED <<file, docs, run, exitCode, bugs, readBugs, index, repoPaths,
                 imagePaths, docIdx, report>>
  /\ UNCHANGED <<taskVars, histVars>>
  /\ UNCHANGED sideVars

\* currentStatus === "done": continue.
SkipDone ==
  /\ pc = "loop"
  /\ index <= Len(bugs)
  /\ ShouldSkip(bugs[index])
  /\ index' = index + 1
  /\ UNCHANGED <<file, docs, run, pc, exitCode, bugs, readBugs, repoPaths,
                 imagePaths, docIdx, report>>
  /\ UNCHANGED <<taskVars, histVars>>
  /\ UNCHANGED sideVars

\* bugs[index] = inProgressBug
MarkInProgress ==
  /\ pc = "loop"
  /\ index <= Len(bugs)
  /\ ~ShouldSkip(bugs[index])
  /\ bugs' = [bugs EXCEPT ![index] = inProgressBug(bugs[index])]
  /\ pc' = "writeInProgress"
  /\ Did("begin")
  /\ UNCHANGED <<file, docs, run, exitCode, readBugs, index, repoPaths,
                 imagePaths, docIdx, report>>
  /\ UNCHANGED <<taskVars, docSends, failedStep, failedBug, prevFailedBug, writes,
                 firstMessage>>
  /\ UNCHANGED sideVars

\* Mutant of WriteInProgress: the in-progress record is not written.
WriteInProgressUnwritten ==
  /\ pc = "writeInProgress"
  /\ pc' = "resolveRepos"
  /\ UNCHANGED <<file, docs, run, exitCode, bugs, readBugs, index, repoPaths,
                 imagePaths, docIdx, report>>
  /\ UNCHANGED <<taskVars, histVars>>
  /\ UNCHANGED sideVars

\* await writeBugInput(bugJsonPath, bugs), after the in-progress assignment;
\* writeFile may reject, and the file is then left as it was.
WriteInProgress ==
  /\ pc = "writeInProgress"
  /\ \E ok \in BOOLEAN :
       IF ok
       THEN /\ file' = writeBugInput(bugs)
            /\ writes' = writes + 1
            /\ pc' = "resolveRepos"
            /\ UNCHANGED <<exitCode, failedStep, failedBug>>
       ELSE /\ Fail("writeInProgress", FALSE)
            /\ UNCHANGED <<file, writes>>
  /\ UNCHANGED <<docs, run, bugs, readBugs, index, repoPaths, imagePaths, docIdx, report>>
  /\ UNCHANGED <<taskVars, acts, docSends, prevFailedBug, firstMessage>>
  /\ UNCHANGED sideVars

\* resolveRepoPaths: every path is stat'ed; a missing path or a
\* non-directory rejects the whole resolution.
ResolveRepoPaths ==
  /\ pc = "resolveRepos"
  /\ Did("resolve")
  /\ \E ok \in BOOLEAN :
       IF ok
       THEN /\ repoPaths' = Dedupe(RepoUrls(bugs[index]))
            /\ docIdx' = 1
            /\ pc' = "ensureDocs"
            /\ UNCHANGED <<exitCode, failedStep, failedBug>>
       ELSE /\ Fail("resolveRepoPaths", TRUE)
            /\ UNCHANGED <<repoPaths, docIdx>>
  /\ UNCHANGED <<file, docs, run, bugs, readBugs, index, imagePaths, report>>
  /\ UNCHANGED <<taskVars, docSends, prevFailedBug, firstMessage, writes>>
  /\ UNCHANGED sideVars

\* Mutant of hasBugFinderFile: the existing doc is not seen.
hasBugFinderFileNever(repoPath) == FALSE

\* hasBugFinderFile(docPath): bug-finder.md of the repository is a file.
hasBugFinderFile(repoPath) == repoPath \in docs

\* ensureBugFinderDocs: all repositories visited.
EnsureDocsEnd ==
  /\ pc = "ensureDocs"
  /\ task = "none"
  /\ docIdx > Len(repoPaths)
  /\ pc' = "resolveImages"
  /\ UNCHANGED <<file, docs, run, exitCode, bugs, readBugs, index, repoPaths,
                 imagePaths, docIdx, report>>
  /\ UNCHANGED <<taskVars, histVars>>
  /\ UNCHANGED sideVars

\* ensureBugFinderDocs: hasBugFinderFile(docPath) is true: continue.
EnsureDocsExisting ==
  /\ pc = "ensureDocs"
  /\ task = "none"
  /\ docIdx <= Len(repoPaths)
  /\ hasBugFinderFile(repoPaths[docIdx])
  /\ docIdx' = docIdx + 1
  /\ UNCHANGED <<file, docs, run, pc, exitCode, bugs, readBugs, index, repoPaths,
                 imagePaths, report>>
  /\ UNCHANGED <<taskVars, histVars>>
  /\ UNCHANGED sideVars

\* ensureBugFinderDocs: the doc is absent: generateBugFinderDoc(repoPath).
EnsureDocsGenerate ==
  /\ pc = "ensureDocs"
  /\ task = "none"
  /\ docIdx <= Len(repoPaths)
  /\ ~hasBugFinderFile(repoPaths[docIdx])
  /\ TaskCall("doc")
  /\ Did("docgen")
  /\ UNCHANGED <<mainVars, docSends, failedStep, failedBug, prevFailedBug, firstMessage, writes>>
  /\ UNCHANGED sideVars

\* Mutant of EnsureDocsReturned: the error of generateBugFinderDoc is
\* swallowed and the loop goes on to the next repository.
EnsureDocsReturnedSwallows ==
  /\ pc = "ensureDocs"
  /\ task = "doc"
  /\ spc = "returned"
  /\ IF result.kind = "return"
     THEN /\ docs' = docs \cup {repoPaths[docIdx]}
          /\ UNCHANGED <<failedStep, failedBug>>
     ELSE /\ failedStep' = result.value[1]
          /\ failedBug' = index
          /\ UNCHANGED docs
  /\ docIdx' = docIdx + 1
  /\ TaskIdle
  /\ UNCHANGED <<file, run, pc, exitCode, bugs, readBugs, index, repoPaths,
                 imagePaths, report>>
  /\ UNCHANGED <<acts, docSends, prevFailedBug, firstMessage, writes>>
  /\ UNCHANGED sideVars

\* ensureBugFinderDocs after generateBugFinderDoc: the content is written
\* to bug-finder.md (writeFile may reject), or the error is rethrown and
\* escapes main.
EnsureDocsReturned ==
  /\ pc = "ensureDocs"
  /\ task = "doc"
  /\ spc = "returned"
  /\ IF result.kind = "return"
     THEN \E ok \in BOOLEAN :
            IF ok
            THEN /\ docs' = docs \cup {repoPaths[docIdx]}
                 /\ docIdx' = docIdx + 1
                 /\ UNCHANGED <<pc, exitCode, failedStep, failedBug>>
            ELSE /\ Fail("doc writeFile", TRUE)
                 /\ UNCHANGED <<docs, docIdx>>
     ELSE /\ Fail(result.value[1], TRUE)
          /\ UNCHANGED <<docs, docIdx>>
  /\ TaskIdle
  /\ UNCHANGED <<file, run, bugs, readBugs, index, repoPaths, imagePaths, report>>
  /\ UNCHANGED <<acts, docSends, prevFailedBug, firstMessage, writes>>
  /\ UNCHANGED sideVars

\* resolveImagePaths, findCommonAncestor, chdir, buildPrompt and the call
\* of runCopilotSession.  Without imagePaths nothing is stat'ed.
ResolveImagePaths ==
  /\ pc = "resolveImages"
  /\ Did("images")
  /\ LET urls == IF bugs[index]["imagePaths"].t = "undefined" THEN <<>>
                 ELSE [i \in 1..Len(bugs[index]["imagePaths"].v) |->
                         bugs[index]["imagePaths"].v[i].v]
     IN \E ok \in BOOLEAN :
          /\ ok \/ Len(urls) > 0
          /\ IF ok
             THEN /\ imagePaths' = Dedupe(urls)
                  /\ pc' = "runSession"
                  /\ TaskCall("analysis")
                  /\ UNCHANGED <<exitCode, failedStep, failedBug>>
             ELSE /\ Fail("resolveImagePaths", TRUE)
                  /\ UNCHANGED <<imagePaths, taskVars>>
  /\ UNCHANGED <<file, docs, run, bugs, readBugs, index, repoPaths, docIdx, report>>
  /\ UNCHANGED <<docSends, prevFailedBug, firstMessage, writes>>
  /\ UNCHANGED sideVars

\* main after runCopilotSession: the report, or the error escapes main.
SessionReturned ==
  /\ pc = "runSession"
  /\ task = "analysis"
  /\ spc = "returned"
  /\ IF result.kind = "return"
     THEN /\ report' = result.value
          /\ pc' = "parse"
          /\ UNCHANGED <<exitCode, failedStep, failedBug>>
     ELSE /\ Fail(result.value[1], TRUE)
          /\ UNCHANGED report
  /\ TaskIdle
  /\ UNCHANGED <<file, docs, run, bugs, readBugs, index, repoPaths, imagePaths, docIdx>>
  /\ UNCHANGED <<acts, docSends, prevFailedBug, firstMessage, writes>>
  /\ debugLog' = FALSE
  /\ reasoningActive' = FALSE
  /\ stdout' = <<>>
  /\ messages' = <<>>
  /\ UNCHANGED <<endedWithNewline, pureVars>>

\* parseFindings(report), then bugs[index] = the done record.
ParseFindings ==
  /\ pc = "parse"
  /\ Did("parse")
  /\ IF parseFindingsError(report) = ""
     THEN /\ bugs' = [bugs EXCEPT ![index] =
                        doneBug(normalizedBug(bugs[index], repoPaths, imagePaths),
                                parseFindings(report))]
          /\ pc' = "writeDone"
          /\ UNCHANGED <<exitCode, failedStep, failedBug>>
     ELSE /\ Fail("parseFindings", TRUE)
          /\ UNCHANGED bugs
  /\ UNCHANGED <<file, docs, run, readBugs, index, repoPaths, imagePaths, docIdx, report>>
  /\ UNCHANGED <<taskVars, docSends, prevFailedBug, firstMessage, writes>>
  /\ UNCHANGED sideVars

\* Mutant of WriteDone: the loop goes on without the done write.
WriteDoneNotAwaited ==
  /\ pc = "writeDone"
  /\ index' = index + 1
  /\ pc' = "loop"
  /\ UNCHANGED <<file, docs, run, exitCode, bugs, readBugs, repoPaths, imagePaths,
                 docIdx, report>>
  /\ UNCHANGED <<taskVars, histVars>>
  /\ UNCHANGED sideVars

\* await writeBugInput(bugJsonPath, bugs), after the done assignment; then
\* the next entry.
WriteDone ==
  /\ pc = "writeDone"
  /\ \E ok \in BOOLEAN :
       IF ok
       THEN /\ file' = writeBugInput(bugs)
            /\ writes' = writes + 1
            /\ index' = index + 1
            /\ pc' = "loop"
            /\ UNCHANGED <<exitCode, failedStep, failedBug>>
       ELSE /\ Fail("writeDone", TRUE)
            /\ UNCHANGED <<file, writes, index>>
  /\ UNCHANGED <<docs, run, bugs, readBugs, repoPaths, imagePaths, docIdx, report>>
  /\ UNCHANGED <<taskVars, acts, docSends, prevFailedBug, firstMessage>>
  /\ UNCHANGED sideVars

\* The tool is run again over the same bug file: a new process.
Rerun ==
  /\ pc = "exited"
  /\ run < MaxRuns
  /\ run' = run + 1
  /\ pc' = "start"
  /\ exitCode' = 0
  /\ bugs' = <<>>
  /\ readBugs' = <<>>
  /\ index' = 1
  /\ repoPaths' = <<>>
  /\ imagePaths' = <<>>
  /\ docIdx' = 1
  /\ report' = <<>>
  /\ acts' = [i \in 1..NumBugs |-> NoActs]
  /\ docSends' = [r \in Repos |-> 0]
  /\ failedStep' = ""
  /\ failedBug' = 0
  /\ prevFailedBug' = failedBug
  /\ writes' = 0
  /\ firstMessage' = <<>>
  /\ UNCHANGED <<file, docs, taskVars>>
  /\ UNCHANGED sideVars

\* ------------------------------------------- teardown, shared by both tasks

\* Mutant of FinallyCompletion: an error of destroy() or stop() is rethrown.
FinallyCompletionRethrows(tryCompletion, destroyed, stopped) ==
  IF destroyed = "threw" \/ stopped = "threw"
  THEN [kind |-> "throw", value |-> <<"teardown">>]
  ELSE tryCompletion

\* How a function completes whose cleanup ran in a finally block in which
\* every error of destroy() and stop() is caught and logged as a warning:
\* as its try block completed.
FinallyCompletion(tryCompletion, destroyed, stopped) == tryCompletion

\* Mutant of AfterSendRejected: the send is retried.
AfterSendRejectedRetry == "send"

\* Where control goes when sendAndWait rejects (an error or the timeout):
\* into the cleanup.
AfterSendRejected == "destroy"

\* ------------------------------------ bugFinderDoc: generateBugFinderDoc

\* new CopilotClient(...) and await client.start(), both before the try:
\* an error of either leaves the function at once.
GenStart ==
  /\ task = "doc"
  /\ spc = "start"
  /\ \E how \in {"ok", "constructor throws", "start rejects"} :
       /\ client' = CASE how = "ok" -> "started"
                      [] how = "start rejects" -> "constructed"
                      [] OTHER -> "none"
       /\ IF how = "ok"
          THEN spc' = "create" /\ UNCHANGED result
          ELSE spc' = "returned" /\ result' = Throw("doc client.start")
  /\ UNCHANGED <<session, streamedOutput, reportContent, nEvents, finalReport,
                 primary, destroyRes, stopRes, task>>
  /\ UNCHANGED <<mainVars, histVars>>
  /\ UNCHANGED sideVars

\* session = await client.createSession(...), inside the try.
GenCreateSession ==
  /\ task = "doc"
  /\ spc = "create"
  /\ \E ok \in BOOLEAN :
       IF ok
       THEN /\ session' = "created"
            /\ spc' = "send"
            /\ UNCHANGED primary
       ELSE /\ primary' = Throw("doc createSession")
            /\ spc' = "destroy"
            /\ UNCHANGED session
  /\ UNCHANGED <<task, client, streamedOutput, reportContent, nEvents, finalReport,
                 destroyRes, stopRes, result>>
  /\ UNCHANGED <<mainVars, histVars>>
  /\ UNCHANGED sideVars

\* await session.sendAndWait(..., TIMEOUT_MS), then the content check: the
\* send rejects (error or timeout), or resolves with content, or with none.
GenSendAndWait ==
  /\ task = "doc"
  /\ spc = "send"
  /\ docSends' = [docSends EXCEPT ![repoPaths[docIdx]] = @ + 1]
  /\ \E how \in {"content", "empty", "rejects"} :
       /\ primary' = CASE how = "content" -> Return(<<"doc">>)
                       [] how = "empty" -> Throw("doc no content")
                       [] OTHER -> Throw("doc sendAndWait")
       /\ spc' = IF how = "rejects" THEN AfterSendRejected ELSE "destroy"
  /\ UNCHANGED <<task, client, session, streamedOutput, reportContent, nEvents,
                 finalReport, destroyRes, stopRes, result>>
  /\ UNCHANGED <<mainVars, acts, failedStep, failedBug, prevFailedBug, firstMessage, writes>>
  /\ UNCHANGED sideVars

\* finally: if (session) await session.destroy(), errors caught.
GenDestroy ==
  /\ task = "doc"
  /\ spc = "destroy"
  /\ IF session = "created"
     THEN \E how \in {"ok", "threw"} :
            /\ destroyRes' = how
            /\ session' = "destroyed"
            /\ spc' = "stop"
     ELSE /\ spc' = "stop"
          /\ UNCHANGED <<destroyRes, session>>
  /\ UNCHANGED <<task, client, streamedOutput, reportContent, nEvents, finalReport,
                 primary, stopRes, result>>
  /\ UNCHANGED <<mainVars, histVars>>
  /\ UNCHANGED sideVars

\* finally: await client.stop(), errors caught; then the function completes.
GenStop ==
  /\ task = "doc"
  /\ spc = "stop"
  /\ \E how \in {"ok", "errors", "threw"} :
       /\ stopRes' = how
       /\ client' = "stopped"
       /\ result' = FinallyCompletion(primary, destroyRes, how)
  /\ spc' = "returned"
  /\ UNCHANGED <<task, session, streamedOutput, reportContent, nEvents, finalReport,
                 primary, destroyRes>>
  /\ UNCHANGED <<mainVars, histVars>>
  /\ UNCHANGED sideVars

\* ------------------------------------------- session: runCopilotSession

\* Mutant of RunStopNeeded: only a client whose start() resolved is stopped.
RunStopNeededIfStarted == client = "started"

\* Mutant of RunDestroyNeeded: the session is left alone and only the client
\* is stopped.
RunDestroyNeverNeeded == FALSE

\* if (session) and if (client), the guards of the cleanup in the finally
\* block.
RunDestroyNeeded == session # "none"
RunStopNeeded == client # "none"

\* Mutant of OnSendRejected: the text collected so far is returned.
OnSendRejectedKeepsPartial(partial) ==
  [finalReport |-> partial, completion |-> [kind |-> "return", value |-> partial]]

\* The inner try has a finally and no catch: when sendAndWait rejects,
\* finalReport keeps its initial "" and the error propagates.
OnSendRejected(partial) ==
  [finalReport |-> <<>>, completion |-> Throw("sendAndWait")]

\* try: client = new CopilotClient(...); await client.start().
RunStart ==
  /\ task = "analysis"
  /\ spc = "start"
  /\ \E how \in {"ok", "constructor throws", "start rejects"} :
       /\ client' = CASE how = "ok" -> "started"
                      [] how = "start rejects" -> "constructed"
                      [] OTHER -> "none"
       /\ IF how = "ok"
          THEN spc' = "create" /\ Did("start") /\ UNCHANGED primary
          ELSE spc' = "destroy" /\ primary' = Throw("client.start") /\ UNCHANGED acts
  /\ UNCHANGED <<task, session, streamedOutput, reportContent, nEvents, finalReport,
                 destroyRes, stopRes, result>>
  /\ UNCHANGED <<mainVars, docSends, failedStep, failedBug, prevFailedBug, firstMessage, writes>>
  /\ UNCHANGED sideVars

\* session = await client.createSession(...).
RunCreateSession ==
  /\ task = "analysis"
  /\ spc = "create"
  /\ \E ok \in BOOLEAN :
       IF ok
       THEN /\ session' = "created"
            /\ spc' = "register"
            /\ Did("session")
            /\ UNCHANGED primary
       ELSE /\ primary' = Throw("createSession")
            /\ spc' = "destroy"
            /\ UNCHANGED <<session, acts>>
  /\ UNCHANGED <<task, client, streamedOutput, reportContent, nEvents, finalReport,
                 destroyRes, stopRes, result>>
  /\ UNCHANGED <<mainVars, docSends, failedStep, failedBug, prevFailedBug, firstMessage, writes>>
  /\ UNCHANGED sideVars

\* registerSessionListeners(session, ...): the closure state is initialised
\* and the handlers are registered; session.on may throw.
RegisterSessionListeners ==
  /\ task = "analysis"
  /\ spc = "register"
  /\ debugLog' \in DebugLogSettings
  /\ streamedOutput' = FALSE
  /\ reasoningActive' = FALSE
  /\ reportContent' = <<>>
  /\ \E ok \in BOOLEAN :
       IF ok
       THEN spc' = "send" /\ Did("listen") /\ UNCHANGED primary
       ELSE spc' = "destroy" /\ primary' = Throw("session.on") /\ UNCHANGED acts
  /\ UNCHANGED <<task, client, session, nEvents, finalReport, destroyRes, stopRes, result>>
  /\ UNCHANGED <<mainVars, docSends, failedStep, failedBug, prevFailedBug, firstMessage, writes>>
  /\ messages' = <<>>
  /\ UNCHANGED <<endedWithNewline, stdout, pureVars>>

\* session.sendAndWait({ prompt, attachments }, timeoutMs) is invoked.
RunSendAndWait ==
  /\ task = "analysis"
  /\ spc = "send"
  /\ spc' = "waiting"
  /\ Did("send")
  /\ firstMessage' = <<>>
  /\ UNCHANGED <<task, client, session, streamedOutput, reportContent, nEvents,
                 finalReport, primary, destroyRes, stopRes, result>>
  /\ UNCHANGED <<mainVars, docSends, failedStep, failedBug, prevFailedBug, writes>>
  /\ UNCHANGED sideVars

\* The contents a message event or a delta may carry.
DeltaContents == {<<>>, <<"head">>, <<"tail">>}
MessageContents == {<<>>, <<"head", "tail">>, <<"whole">>}

\* session.on("assistant.message_delta")
OnMessageDelta ==
  /\ task = "analysis"
  /\ spc = "waiting"
  /\ nEvents < MaxEvents
  /\ \E deltaContent \in DeltaContents :
       /\ reportContent' = reportContent \o deltaContent
       /\ SetOut(writeStdout(endReasoning(Out, TRUE), deltaContent, "report"))
       /\ messages' = Append(messages, [kind |-> "delta", content |-> deltaContent])
  /\ reasoningActive' = FALSE
  /\ streamedOutput' = TRUE
  /\ nEvents' = nEvents + 1
  /\ UNCHANGED <<task, spc, client, session, finalReport, primary, destroyRes,
                 stopRes, result>>
  /\ UNCHANGED <<mainVars, histVars>>
  /\ UNCHANGED <<debugLog, pureVars>>

\* session.on("assistant.message")
OnMessage ==
  /\ task = "analysis"
  /\ spc = "waiting"
  /\ nEvents < MaxEvents
  /\ \E content \in MessageContents :
       /\ reportContent' = IF ~streamedOutput THEN content
                           ELSE IF Len(reportContent) = 0 THEN content
                           ELSE reportContent
       /\ firstMessage' = IF Len(firstMessage) = 0 THEN content ELSE firstMessage
       /\ SetOut(IF ~streamedOutput
                 THEN writeStdout(endReasoning(Out, FALSE), content, "report")
                 ELSE endReasoning(Out, FALSE))
       /\ messages' = Append(messages, [kind |-> "message", content |-> content])
  /\ reasoningActive' = FALSE
  /\ nEvents' = nEvents + 1
  /\ UNCHANGED <<task, spc, client, session, streamedOutput, finalReport, primary,
                 destroyRes, stopRes, result>>
  /\ UNCHANGED <<mainVars, acts, docSends, failedStep, failedBug, prevFailedBug, writes>>
  /\ UNCHANGED <<debugLog, pureVars>>

\* What a reasoning delta may carry.
ThinkingContents == {<<"thought">>}

\* Mutant of OnReasoningDelta: the reasoning text that is displayed is
\* collected as well.
OnReasoningDeltaCollects ==
  /\ task = "analysis"
  /\ spc = "waiting"
  /\ nEvents < MaxEvents
  /\ \E deltaContent \in ThinkingContents :
       IF debugLog
       THEN /\ SetOut(writeStdout(beginReasoning(Out), deltaContent, "thinking"))
            /\ reasoningActive' = TRUE
            /\ reportContent' = reportContent \o deltaContent
       ELSE UNCHANGED <<stdout, endedWithNewline, reasoningActive, reportContent>>
  /\ nEvents' = nEvents + 1
  /\ UNCHANGED <<task, spc, client, session, streamedOutput,
                 finalReport, primary, destroyRes, stopRes, result>>
  /\ UNCHANGED <<mainVars, histVars>>
  /\ UNCHANGED <<debugLog, messages, pureVars>>

\* session.on("assistant.reasoning_delta")
OnReasoningDelta ==
  /\ task = "analysis"
  /\ spc = "waiting"
  /\ nEvents < MaxEvents
  /\ \E deltaContent \in ThinkingContents :
       IF debugLog
       THEN /\ SetOut(writeStdout(beginReasoning(Out), deltaContent, "thinking"))
            /\ reasoningActive' = TRUE
       ELSE UNCHANGED <<stdout, endedWithNewline, reasoningActive>>
  /\ nEvents' = nEvents + 1
  /\ UNCHANGED <<task, spc, client, session, streamedOutput, reportContent,
                 finalReport, primary, destroyRes, stopRes, result>>
  /\ UNCHANGED <<mainVars, histVars>>
  /\ UNCHANGED <<debugLog, messages, pureVars>>

\* session.on("assistant.reasoning")
OnReasoning ==
  /\ task = "analysis"
  /\ spc = "waiting"
  /\ nEvents < MaxEvents
  /\ SetOut(endReasoning(Out, FALSE))
  /\ reasoningActive' = FALSE
  /\ nEvents' = nEvents + 1
  /\ UNCHANGED <<task, spc, client, session, streamedOutput, reportContent,
                 finalReport, primary, destroyRes, stopRes, result>>
  /\ UNCHANGED <<mainVars, histVars>>
  /\ UNCHANGED <<debugLog, messages, pureVars>>

\* The handlers of assistant.intent, session.info, session.model_change,
\* session.compaction_start, session.compaction_complete,
\* tool.execution_start, session.error and subagent.*: a status function of
\* lib/logging is called when debugLog is set, and nothing happens otherwise.
OnDiagnostic ==
  /\ task = "analysis"
  /\ spc = "waiting"
  /\ nEvents < MaxEvents
  /\ IF debugLog
     THEN SetOut(writeStderrLine(Out))
     ELSE UNCHANGED <<stdout, endedWithNewline>>
  /\ nEvents' = nEvents + 1
  /\ UNCHANGED <<task, spc, client, session, streamedOutput, reportContent,
                 finalReport, primary, destroyRes, stopRes, result>>
  /\ UNCHANGED <<mainVars, histVars>>
  /\ UNCHANGED <<debugLog, reasoningActive, messages, pureVars>>

\* sendAndWait resolved: finalReport = getReport().
RunSendResolved ==
  /\ task = "analysis"
  /\ spc = "waiting"
  /\ finalReport' = reportContent
  /\ primary' = Return(reportContent)
  /\ SetOut(ensureLineBreak(Out, "stdout", "session"))
  /\ spc' = "destroy"
  /\ nEvents' = 0
  /\ Did("collect")
  /\ UNCHANGED <<task, client, session, streamedOutput, reportContent,
                 destroyRes, stopRes, result>>
  /\ UNCHANGED <<mainVars, docSends, failedStep, failedBug, prevFailedBug, firstMessage, writes>>
  /\ UNCHANGED <<debugLog, reasoningActive, messages, pureVars>>

\* sendAndWait rejected, by an error or by the timeout: finalReport is not
\* assigned.
RunSendRejected ==
  /\ task = "analysis"
  /\ spc = "waiting"
  /\ finalReport' = OnSendRejected(reportContent).finalReport
  /\ primary' = OnSendRejected(reportContent).completion
  /\ spc' = AfterSendRejected
  /\ nEvents' = 0
  /\ Did("rejected")
  /\ SetOut(ensureLineBreak(Out, "stdout", "session"))
  /\ UNCHANGED <<task, client, session, streamedOutput, reportContent,
                 destroyRes, stopRes, result>>
  /\ UNCHANGED <<mainVars, docSends, failedStep, failedBug, prevFailedBug, writes,
                 firstMessage>>
  /\ UNCHANGED <<debugLog, reasoningActive, messages, pureVars>>

\* finally: if (session) await session.destroy(), errors caught.
RunDestroy ==
  /\ task = "analysis"
  /\ spc = "destroy"
  /\ IF RunDestroyNeeded
     THEN \E how \in {"ok", "threw"} :
            /\ destroyRes' = how
            /\ session' = "destroyed"
            /\ spc' = "stop"
            /\ Did("destroy")
     ELSE /\ spc' = "stop"
          /\ UNCHANGED <<destroyRes, session, acts>>
  /\ UNCHANGED <<task, client, streamedOutput, reportContent, nEvents, finalReport,
                 primary, stopRes, result>>
  /\ firstMessage' = <<>>
  /\ UNCHANGED <<mainVars, docSends, failedStep, failedBug, prevFailedBug, writes>>
  /\ UNCHANGED sideVars

\* finally: if (client) await client.stop(), errors caught; then
\* return finalReport, or the error of the try block propagates.
RunStop ==
  /\ task = "analysis"
  /\ spc = "stop"
  /\ IF RunStopNeeded
     THEN \E how \in {"ok", "errors", "threw"} :
            /\ stopRes' = how
            /\ client' = "stopped"
            /\ result' = LET c == FinallyCompletion(primary, destroyRes, how)
                         IN IF c.kind = "return" THEN Return(finalReport) ELSE c
            /\ Did("stop")
     ELSE /\ result' = LET c == FinallyCompletion(primary, destroyRes, "none")
                       IN IF c.kind = "return" THEN Return(finalReport) ELSE c
          /\ UNCHANGED <<stopRes, client, acts>>
  /\ spc' = "returned"
  /\ UNCHANGED <<task, session, streamedOutput, reportContent, nEvents, finalReport,
                 primary, destroyRes>>
  /\ UNCHANGED <<mainVars, docSends, failedStep, failedBug, prevFailedBug, firstMessage, writes>>
  /\ UNCHANGED sideVars

\* ---------------------------------------------------------- specification

Next ==
  \/ ReadBugInput
  \/ LoopEnd
  \/ SkipDone
  \/ MarkInProgress
  \/ WriteInProgress
  \/ ResolveRepoPaths
  \/ EnsureDocsEnd
  \/ EnsureDocsExisting
  \/ EnsureDocsGenerate
  \/ EnsureDocsReturned
  \/ ResolveImagePaths
  \/ SessionReturned
  \/ ParseFindings
  \/ WriteDone
  \/ Rerun
  \/ GenStart
  \/ GenCreateSession
  \/ GenSendAndWait
  \/ GenDestroy
  \/ GenStop
  \/ RunStart
  \/ RunCreateSession
  \/ RegisterSessionListeners
  \/ RunSendAndWait
  \/ OnMessageDelta
  \/ OnMessage
  \/ OnReasoningDelta
  \/ OnReasoning
  \/ OnDiagnostic
  \/ RunSendResolved
  \/ RunSendRejected
  \/ RunDestroy
  \/ RunStop

Spec == Init /\ [][Next]_vars

\* The same program with its steps taken as long as one can be: every await
\* of main settles (the sends have a timeout), and the tool is run again
\* until MaxRuns.
FairSpec == Init /\ [][Next]_vars /\ WF_vars(Next)

\* ------------------------------------- parseFindings over every report text

\* The report texts runCopilotSession may return: the empty text, a
\* truncated object, the two complete objects of the stream, and every
\* document.
Reports ==
  {<<>>, <<"head">>, <<"head", "tail">>, <<"whole">>}
    \cup { <<t>> : t \in DocumentTexts }

\* main at line 231 for its first entry: the entry was written in-progress,
\* its paths are resolved, its docs exist, and runCopilotSession has just
\* returned a report.
InitFindings ==
  \E start \in InitialFiles, text \in Reports :
    /\ ~ShouldSkip(parseBugInput(start)[1])
    /\ readBugs = parseBugInput(start)
    /\ bugs = [readBugs EXCEPT ![1] = inProgressBug(@)]
    /\ file = writeBugInput(bugs)
    /\ docs = Repos
    /\ run = 1
    /\ pc = "parse"
    /\ exitCode = 0
    /\ index = 1
    /\ repoPaths = Dedupe(RepoUrls(bugs[1]))
    /\ imagePaths = Dedupe(ImageUrlsOf(1))
    /\ docIdx = Len(repoPaths) + 1
    /\ report = text
    /\ task = "none"
    /\ spc = "idle"
    /\ client = "none"
    /\ session = "none"
    /\ streamedOutput = FALSE
    /\ reportContent = <<>>
    /\ nEvents = 0
    /\ finalReport = <<>>
    /\ primary = NoCompletion
    /\ destroyRes = "none"
    /\ stopRes = "none"
    /\ result = NoCompletion
    /\ acts = [i \in 1..NumBugs |->
                 IF i = 1
                 THEN [NoActs EXCEPT !.begin = 1, !.resolve = 1, !.images = 1,
                                     !.start = 1, !.session = 1, !.listen = 1,
                                     !.send = 1, !.collect = 1, !.destroy = 1,
                                     !.stop = 1]
                 ELSE NoActs]
    /\ docSends = [r \in Repos |-> 0]
    /\ failedStep = ""
    /\ failedBug = 0
    /\ prevFailedBug = 0
    /\ writes = 1
    /\ firstMessage = <<>>
    /\ SideIdle

NextFindings ==
  \/ ParseFindings
  \/ WriteDone

SpecFindings == InitFindings /\ [][NextFindings]_vars

\* ------------------------------------ parseBugInput over every bug file

\* The values a field of an item of the bug file may hold; the undefined
\* value stands for the absent key.
TitleChoices == {JStr("T"), JStr(Padded("T")), JStr(" "), JNum(1), JUndef}
DescriptionChoices == {JStr("D"), JUndef}
RepoUrlsChoices ==
  {JUndef, JArr(<<JStr("/r1")>>), JArr(<<>>), JArr(<<JStr("/r1"), JStr(" ")>>),
   JStr("/r1")}
RepoUrlChoices == {JUndef, JStr(Padded("/r1")), JStr(" ")}
StatusChoices == {JUndef, JStr("todo"), JStr(Padded("done")), JStr("bogus"), JNull}
DetailsChoices ==
  {JUndef, JNull, OldFinding, FindingsJSON(<<>>), JArr(<<>>),
   JObj([probableCause |-> JStr(Padded("X")), reason |-> JStr("Y"),
         suggestedFixes |-> JArr(<<JStr("Z")>>), confidenceScore |-> JNum(2),
         evidence |-> JStr("E")]),
   JObj([probableCause |-> JStr(Padded("X")), reason |-> JStr("Y"),
         suggestedFixes |-> JArr(<<JStr(Padded("Z"))>>), confidenceScore |-> JNum(1),
         evidence |-> JStr("E")])}
ImagesChoices == {JUndef, JArr(<<>>), JArr(<<JStr("/img")>>), JStr("/img")}

\* Every object the choices spell.
RawItems ==
  { Stringify(JObj(("title" :> t) @@ ("description" :> d) @@ ("localRepoUrls" :> u)
                   @@ ("localRepoUrl" :> l) @@ ("status" :> st)
                   @@ ("bug-details" :> bd) @@ ("imagePaths" :> im))) :
      t \in TitleChoices, d \in DescriptionChoices, u \in RepoUrlsChoices,
      l \in RepoUrlChoices, st \in StatusChoices, bd \in DetailsChoices,
      im \in ImagesChoices }

\* A few items for the files of two entries: two that are accepted, one with
\* a blank title, and a string.
SomeItems ==
  { JObj(BaseItem(1)),
    JObj(BaseItem(2) @@ ("status" :> JStr("done")) @@ ("bug-details" :> OldFinding)),
    JObj(BaseItem(1) @@ ("title" :> JStr(" "))),
    JStr("T") }

\* The parsed contents of a bug file: values that are no array, the empty
\* array, every array of one item, and the arrays of two of SomeItems.
RawFiles ==
  {JNull, JStr("T"), JObj(BaseItem(1)), JArr(<<>>)}
    \cup { JArr(<<a>>) : a \in RawItems }
    \cup { JArr(<<a, b>>) : a \in SomeItems, b \in SomeItems }

InitInput ==
  /\ file \in RawFiles
  /\ docs = {}
  /\ run = 1
  /\ pc = "start"
  /\ exitCode = 0
  /\ bugs = <<>>
  /\ readBugs = <<>>
  /\ index = 1
  /\ repoPaths = <<>>
  /\ imagePaths = <<>>
  /\ docIdx = 1
  /\ report = <<>>
  /\ task = "none"
  /\ spc = "idle"
  /\ client = "none"
  /\ session = "none"
  /\ streamedOutput = FALSE
  /\ reportContent = <<>>
  /\ nEvents = 0
  /\ finalReport = <<>>
  /\ primary = NoCompletion
  /\ destroyRes = "none"
  /\ stopRes = "none"
  /\ result = NoCompletion
  /\ acts = [i \in 1..NumBugs |-> NoActs]
  /\ docSends = [r \in Repos |-> 0]
  /\ failedStep = ""
  /\ failedBug = 0
  /\ prevFailedBug = 0
  /\ writes = 0
  /\ firstMessage = <<>>
  /\ SideIdle

\* writeBugInput of the array readBugInput returned, unchanged, after which
\* the file is read again.
WriteBack ==
  /\ pc = "loop"
  /\ writes = 0
  /\ file' = writeBugInput(bugs)
  /\ writes' = 1
  /\ pc' = "start"
  /\ UNCHANGED <<docs, run, exitCode, bugs, readBugs, index, repoPaths, imagePaths,
                 docIdx, report>>
  /\ UNCHANGED <<taskVars, acts, docSends, failedStep, failedBug, prevFailedBug,
                 firstMessage>>
  /\ UNCHANGED sideVars

NextInput ==
  \/ ReadBugInput
  \/ WriteBack

SpecInput == InitInput /\ [][NextInput]_vars

\* ------------------------------------------------------------- properties

\* The order todo < in-progress < done; an omitted status counts as todo.
Rank(st) == CASE st = "done" -> 2 [] st = "in-progress" -> 1 [] OTHER -> 0

\* The status of entry i as the file holds it.
FileStatus(f, i) ==
  IF Get(f.v[i], "status").t = "undefined" THEN "todo" ELSE Get(f.v[i], "status").v

InRun == pc \notin {"start"} /\ Len(readBugs) > 0

\* C1: across all runs, no write of the bug file moves the status of an
\* entry backward in the order todo < in-progress < done.
C1_StatusNeverMovesBackward ==
  [][\A i \in 1..NumBugs :
       Rank(FileStatus(file', i)) >= Rank(FileStatus(file, i))]_vars

\* A rerun over a file that already holds a done entry has written the file.
C1_Witness ==
  /\ run > 1
  /\ writes > 0
  /\ \E i \in 1..Len(readBugs) : currentStatus(readBugs[i]) = "done"

\* C2: for an entry that is done when the run reads the file, the run
\* performs no step (no in-progress mark, path resolution, doc generation,
\* session, send or parse), and at every moment of the run the file holds
\* its record exactly as it was read.
C2_DoneEntriesUntouched ==
  InRun =>
    \A i \in 1..Len(readBugs) :
      currentStatus(readBugs[i]) = "done" =>
        /\ acts[i] = NoActs
        /\ file.v[i] = Stringify(JObj(readBugs[i]))

\* A run that has a done entry next to one it processed to the end.
C2_Witness ==
  /\ pc = "exited"
  /\ writes >= 2
  /\ \E i \in 1..Len(readBugs) : currentStatus(readBugs[i]) = "done" /\ acts[i] = NoActs
  /\ \E i \in 1..Len(readBugs) : acts[i].parse = 1

\* C3: whenever main is at a processing step (the loop head, path
\* resolution, doc generation, the session, the findings parse), the file
\* holds for every entry the status the in-memory array holds.
C3_DiskReflectsMemory ==
  pc \in {"loop", "resolveRepos", "ensureDocs", "resolveImages", "runSession", "parse"} =>
    \A i \in 1..Len(bugs) : Get(file.v[i], "status") = bugs[i]["status"]

\* The second entry's session is running after the first entry's done write
\* and the second's in-progress write.
C3_Witness ==
  /\ pc = "runSession"
  /\ spc = "waiting"
  /\ writes >= 3
  /\ bugs[index]["status"] = JStr("in-progress")

\* C4: when a run fails while processing entry i (after its in-progress
\* write), the file holds entry i as in-progress and every earlier entry as
\* done, and the next run processes entry i again.
C4_FailedBugIsResumed ==
  /\ (pc = "exited" /\ failedBug # 0) =>
       /\ FileStatus(file, failedBug) = "in-progress"
       /\ \A j \in 1..(failedBug - 1) : FileStatus(file, j) = "done"
  /\ (pc = "exited" /\ prevFailedBug # 0) => acts[prevFailedBug].begin > 0

\* C5: when runCopilotSession returns or throws, destroy() has been invoked
\* on the session if one was created and stop() on the client if one was
\* constructed.
C5_RunTeardownUnconditional ==
  (task = "analysis" /\ spc = "returned") =>
    /\ session # "none" => destroyRes # "none"
    /\ client # "none" => stopRes # "none"

\* runCopilotSession has thrown the send's error after its cleanup.
C5_Witness ==
  /\ task = "analysis"
  /\ spc = "returned"
  /\ result = Throw("sendAndWait")
  /\ destroyRes # "none"
  /\ stopRes # "none"

\* C6: when generateBugFinderDoc returns or throws, stop() has been invoked
\* on the client if one was constructed, and destroy() on the session if one
\* was created.
C6_GenTeardownUnconditional ==
  (task = "doc" /\ spc = "returned") =>
    /\ client # "none" => stopRes # "none"
    /\ session # "none" => destroyRes # "none"

\* C7: whatever destroy() and stop() do, both functions complete as their
\* try block completed, and a destroy() that threw is followed by stop().
C7_TeardownNeverMasks ==
  (task # "none" /\ spc = "returned" /\ primary.kind # "none") =>
    /\ result = primary
    /\ destroyRes = "threw" => stopRes # "none"

\* runCopilotSession returns its report although destroy() and stop() threw.
C7_Witness ==
  /\ task = "analysis"
  /\ spc = "returned"
  /\ destroyRes = "threw"
  /\ stopRes = "threw"
  /\ result = Return(<<"head", "tail">>)

\* C8: when sendAndWait resolved after assistant.message events only (no
\* delta), the report is the content of the first non-empty one.
C8_ReportIsFirstMessage ==
  (task = "analysis" /\ spc = "destroy" /\ primary.kind = "return"
     /\ ~streamedOutput /\ Len(firstMessage) > 0) =>
    finalReport = firstMessage

\* C9: in one run, for every entry at most one analysis session is created
\* and at most one sendAndWait is invoked, and for every repository at most
\* one doc-generation send is made.
C9_NoRetry ==
  /\ \A i \in 1..NumBugs : acts[i].session <= 1 /\ acts[i].send <= 1
  /\ \A r \in Repos : docSends[r] <= 1

\* The run ended on a rejected analysis send, after one doc-generation send.
C9_Witness ==
  /\ pc = "exited"
  /\ failedStep = "sendAndWait"
  /\ acts[failedBug].send = 1
  /\ acts[failedBug].rejected = 1
  /\ \E r \in Repos : docSends[r] = 1

\* C10: once the analysis send of an entry was rejected, runCopilotSession
\* holds no report and throws, the entry's findings are never parsed, and the
\* file holds the entry as its in-progress copy of the record read.
C10_NoPartialResult ==
  /\ (task = "analysis" /\ acts[index].rejected > 0) =>
       /\ finalReport = <<>>
       /\ primary.kind = "throw"
       /\ spc = "returned" => result.kind = "throw"
  /\ InRun =>
       \A i \in 1..Len(readBugs) :
         acts[i].rejected > 0 =>
           /\ acts[i].parse = 0
           /\ file.v[i] = Stringify(JObj(inProgressBug(readBugs[i])))

\* The send was rejected after a complete findings object had been streamed.
C10_Witness ==
  /\ task = "analysis"
  /\ spc = "returned"
  /\ acts[index].rejected = 1
  /\ reportContent = <<"head", "tail">>

\* The parsed value of a report text that is a JSON document.
ParsedReport == JSONParse(report)

\* The report violates a rule of the findings contract: empty, not JSON, not
\* an object, confidenceScore not a number within 0..1, suggestedFixes not
\* an array, or probableCause, reason or an element of suggestedFixes not a
\* string with a non-blank character.
ViolatesFindingsRules ==
  \/ Len(report) = 0
  \/ ~JSONParseOk(report)
  \/ ParsedReport.t # "object"
  \/ Get(ParsedReport, "confidenceScore").t # "number"
  \/ Get(ParsedReport, "confidenceScore").v < 0
  \/ Get(ParsedReport, "confidenceScore").v > 1
  \/ Get(ParsedReport, "suggestedFixes").t # "array"
  \/ \E k \in {"probableCause", "reason"} :
       \/ Get(ParsedReport, k).t # "string"
       \/ Get(ParsedReport, k).v \in {"", " "}
  \/ \E i \in 1..Len(Get(ParsedReport, "suggestedFixes").v) :
       \/ Get(ParsedReport, "suggestedFixes").v[i].t # "string"
       \/ Get(ParsedReport, "suggestedFixes").v[i].v \in {"", " "}

\* C11: once main has gone past parseFindings with a report that violates a
\* rule, the run has ended with exit code 1 at parseFindings, the entry is
\* in memory and in the file the in-progress copy of the record read (no
\* bug-details written, status not done), and the file was not written again.
C11_FindingsAllOrNothing ==
  (pc # "parse" /\ ViolatesFindingsRules) =>
    /\ pc = "exited"
    /\ exitCode = 1
    /\ failedStep = "parseFindings"
    /\ bugs[index] = inProgressBug(readBugs[index])
    /\ file.v[index] = Stringify(JObj(inProgressBug(readBugs[index])))
    /\ writes = 1

\* The run ended on a findings object whose only fault is a blank element of
\* suggestedFixes.
C11_Witness ==
  /\ pc = "exited"
  /\ failedStep = "parseFindings"
  /\ report = <<"{ cause:'X' reason:'Y' fixes:['Z',' '] score:1 }">>

\* C12: a findings object is rejected when its confidenceScore is not a
\* number or lies below 0 or above 1, and is accepted, its score stored
\* unchanged, when the score is a number within 0..1 (bounds included),
\* probableCause and reason are non-blank strings and suggestedFixes is an
\* array of non-blank strings.
C12_ScoreWithinUnitInterval ==
  (pc # "parse" /\ JSONParseOk(report) /\ ParsedReport.t = "object") =>
    LET score == Get(ParsedReport, "confidenceScore")
        inRange == score.t = "number" /\ score.v >= 0 /\ score.v <= 1
        restOk ==
          /\ \A k \in {"probableCause", "reason"} :
               /\ Get(ParsedReport, k).t = "string"
               /\ Get(ParsedReport, k).v \notin {"", " "}
          /\ Get(ParsedReport, "suggestedFixes").t = "array"
          /\ \A i \in 1..Len(Get(ParsedReport, "suggestedFixes").v) :
               /\ Get(ParsedReport, "suggestedFixes").v[i].t = "string"
               /\ Get(ParsedReport, "suggestedFixes").v[i].v \notin {"", " "}
    IN /\ ~inRange => failedStep = "parseFindings"
       /\ (inRange /\ restOk) =>
            /\ failedStep # "parseFindings"
            /\ Get(bugs[1]["bug-details"], "confidenceScore") = score

\* A findings object with score 0 and one with score 1 were accepted and
\* written; the witness is the one with score 0 and a padded probableCause.
C12_Witness ==
  /\ pc = "loop"
  /\ report = <<"{ cause:' X ' reason:'Y' fixes:['Z'] score:0 }">>
  /\ Get(Get(file.v[1], "bug-details"), "confidenceScore") = JNum(0)
  /\ Get(Get(file.v[1], "bug-details"), "probableCause") = JStr("X")

\* C13: when the array parseBugInput returned is written with
\* writeBugInput and the file is read again, the read succeeds and returns
\* an array equal to the one written.
C13_RoundTrip ==
  [][(pc = "start" /\ writes = 1) => (pc' = "loop" /\ bugs' = bugs)]_vars

\* A record read with padded strings, a finding with evidence and a padded
\* status was written back and read again.
C13_Witness ==
  /\ pc = "loop"
  /\ writes = 1
  /\ bugs[1]["status"] = JStr("done")
  /\ bugs[1]["localRepoUrls"] = JArr(<<JStr("/r1")>>)
  /\ bugs[1]["bug-details"].t = "object"
  /\ Get(bugs[1]["bug-details"], "evidence") = JStr("E")
  /\ bugs[1]["imagePaths"] = JArr(<<>>)

\* A value that is a string with a non-blank character.
NonBlankString(val) == val.t = "string" /\ val.v \notin {"", " "}

\* The fields of an item that are missing or malformed by the rules of the
\* bug file: title, description, localRepoUrls (or, when that key is absent,
\* the legacy localRepoUrl), and the optional status, bug-details and
\* imagePaths when present.
ItemFaults(item) ==
  LET urls == Get(item, "localRepoUrls")
      st == Get(item, "status")
      bd == Get(item, "bug-details")
      im == Get(item, "imagePaths")
      strings(a) == a.t = "array" /\ \A i \in 1..Len(a.v) : NonBlankString(a.v[i])
  IN {f \in {"title", "description"} : ~NonBlankString(Get(item, f))}
     \cup (IF urls.t # "undefined" /\ ~(strings(urls) /\ Len(urls.v) > 0)
           THEN {"localRepoUrls"} ELSE {})
     \cup (IF urls.t = "undefined" /\ ~NonBlankString(Get(item, "localRepoUrl"))
           THEN {"localRepoUrl"} ELSE {})
     \cup (IF st.t # "undefined"
              /\ ~(st.t = "string"
                   /\ \E w \in {"todo", "in-progress", "done"} : st.v \in {w, Padded(w)})
           THEN {"status"} ELSE {})
     \cup (IF bd.t \in {"undefined", "null"} THEN {}
           ELSE IF bd.t # "object" THEN {"bug-details"}
           ELSE (IF Get(bd, "confidenceScore").t = "number"
                    /\ Get(bd, "confidenceScore").v \in 0..1
                 THEN {} ELSE {"bug-details.confidenceScore"})
                \cup {"bug-details." \o f : f \in {g \in {"probableCause", "reason"} :
                                                     ~NonBlankString(Get(bd, g))}}
                \cup (IF strings(Get(bd, "suggestedFixes"))
                         /\ Len(Get(bd, "suggestedFixes").v) > 0
                      THEN {} ELSE {"bug-details.suggestedFixes"}))
     \cup (IF im.t # "undefined" /\ ~strings(im) THEN {"imagePaths"} ELSE {})

\* What a validation error may name for an input: the array itself, an item
\* that is no object, or a faulty field of an item.
InputFaults(raw) ==
  IF raw.t # "array" THEN {"array"}
  ELSE IF Len(raw.v) = 0 THEN {"empty"}
  ELSE UNION { IF raw.v[i].t # "object" THEN {"item"} ELSE ItemFaults(raw.v[i]) :
               i \in 1..Len(raw.v) }

\* C14: readBugInput's parseBugInput either returns or throws: it returns
\* exactly when the input has no fault, one record per item, an omitted
\* status counting as todo; and it throws an error that names a fault of the
\* input otherwise.
C14_ParseBugInputTotal ==
  (pc # "start" /\ writes = 0) =>
    /\ pc \in {"loop", "exited"}
    /\ pc = "loop" <=> InputFaults(file) = {}
    /\ pc = "loop" =>
         /\ Len(bugs) = Len(file.v)
         /\ \A i \in 1..Len(bugs) :
              Get(file.v[i], "status").t = "undefined" =>
                currentStatus(bugs[i]) = "todo" /\ ~ShouldSkip(bugs[i])
    /\ pc = "exited" =>
         /\ exitCode = 1
         /\ \E f \in InputFaults(file) : failedStep = "readBugInput: " \o f

\* The input was rejected for the empty suggestedFixes of its bug-details,
\* which the error names.
C14_Witness ==
  /\ pc = "exited"
  /\ failedStep = "readBugInput: bug-details.suggestedFixes"
  /\ Get(file.v[1], "status") = JStr(Padded("done"))

\* C15: a task ends only by returning to main, and main goes on after it
\* only when stop() was invoked on the client the task constructed and
\* destroy() on the session it created; a task starts with no client and no
\* session; and an entry is picked up only while no task is in progress and
\* every earlier entry is done in the file.
C15_StrictlySequential ==
  [][/\ (task # "none" /\ task' # task) =>
          /\ task' = "none"
          /\ spc = "returned"
          /\ pc' # "exited" =>
               /\ client # "none" => stopRes # "none"
               /\ session # "none" => destroyRes # "none"
     /\ (task = "none" /\ task' # "none") =>
          client' = "none" /\ session' = "none"
     /\ \A j \in 1..NumBugs :
          acts'[j].begin > acts[j].begin =>
            /\ task = "none"
            /\ \A i \in 1..(j - 1) : FileStatus(file, i) = "done"]_vars

\* The analysis session of the second entry is running after a doc was
\* generated for it and the first entry was processed to the end.
C15_Witness ==
  /\ task = "analysis"
  /\ spc = "waiting"
  /\ index = 2
  /\ acts[1].parse = 1
  /\ acts[2].docgen >= 1

\* C16: a doc-generation task is started and a doc-generation send is made
\* only for a repository whose bug-finder.md is absent, at most once; a
\* bug-finder.md is written only for the absent doc of the repository whose
\* generation just returned content after one send; and ensureBugFinderDocs
\* returns only when every repository of the bug has its doc.
C16_DocsGeneratedOnceWhenAbsent ==
  [][/\ \A r \in Repos :
          docSends'[r] > docSends[r] =>
            /\ r \notin docs
            /\ task = "doc"
            /\ repoPaths[docIdx] = r
            /\ docSends[r] = 0
     /\ (task = "none" /\ task' = "doc") => repoPaths[docIdx] \notin docs
     /\ docs' # docs =>
          /\ repoPaths[docIdx] \notin docs
          /\ docs' = docs \cup {repoPaths[docIdx]}
          /\ task = "doc"
          /\ result.kind = "return"
          /\ docSends[repoPaths[docIdx]] = 1
     /\ (pc = "ensureDocs" /\ pc' = "resolveImages") =>
          \A k \in 1..Len(repoPaths) : repoPaths[k] \in docs]_vars

\* For the second entry the doc of /r2 was generated and the doc of /r1,
\* generated for the first entry, was left alone.
C16_Witness ==
  /\ pc = "resolveImages"
  /\ index = 2
  /\ docs = Repos
  /\ acts[2].docgen = 1
  /\ docSends["/r1"] = 1
  /\ docSends["/r2"] = 1

\* The errors generateBugFinderDoc throws.
DocFailures ==
  {"doc client.start", "doc createSession", "doc sendAndWait", "doc no content"}

\* C17: once generateBugFinderDoc has failed for a repository of an entry,
\* the run has ended with exit code 1, that repository has no bug-finder.md,
\* no doc was generated for a later repository of the entry, no image path
\* was resolved, no analysis session was opened, no findings were parsed,
\* and the entry is in-progress in memory and in the file.
C17_DocFailureIsFatal ==
  failedStep \in DocFailures =>
    /\ pc = "exited"
    /\ exitCode = 1
    /\ task = "none"
    /\ failedBug = index
    /\ repoPaths[docIdx] \notin docs
    /\ acts[index].docgen <= docIdx
    /\ acts[index].images = 0
    /\ acts[index].session = 0
    /\ acts[index].send = 0
    /\ acts[index].parse = 0
    /\ bugs[index]["status"] = JStr("in-progress")
    /\ FileStatus(file, index) = "in-progress"

\* The assistant returned no content for the first of the two repositories
\* of the second entry.
C17_Witness ==
  /\ pc = "exited"
  /\ failedStep = "doc no content"
  /\ index = 2
  /\ docIdx = 1
  /\ Len(repoPaths) = 2
  /\ repoPaths[2] \notin docs

\* C18: for every entry, a doc is generated only after its repository paths
\* and its image paths were resolved, the analysis session is created only
\* after that and with every doc present, the findings are parsed only
\* after the send, and the entry is written done only after a parse that
\* succeeded.
C18_StepsInOrder ==
  [][\A j \in 1..NumBugs :
       /\ acts'[j].docgen > acts[j].docgen =>
            acts[j].resolve = 1 /\ acts[j].images = 1
       /\ acts'[j].session > acts[j].session =>
            /\ acts[j].resolve = 1 /\ acts[j].images = 1
            /\ \A k \in 1..Len(repoPaths) : repoPaths[k] \in docs
       /\ acts'[j].parse > acts[j].parse => acts[j].send = 1
       /\ (j <= Len(file.v) /\ FileStatus(file', j) = "done"
             /\ FileStatus(file, j) # "done") =>
            acts[j].parse = 1 /\ parseFindingsError(report) = ""]_vars

\* C19: the exit code is 0 or 1; it is 1 exactly when an error escaped main;
\* and a run that has returned with exit code 0 has left every entry done,
\* each one skipped or processed to its findings.
C19_ExitCode ==
  /\ exitCode \in {0, 1}
  /\ exitCode = 1 <=> failedStep # ""
  /\ exitCode = 1 => pc = "exited"
  /\ (pc = "exited" /\ exitCode = 0) =>
       \A i \in 1..Len(bugs) :
         /\ FileStatus(file, i) = "done"
         /\ acts[i] = NoActs \/ acts[i].parse = 1

\* The run processed its first entry and ended with exit code 1 on the
\* findings of the second.
C19_Witness ==
  /\ pc = "exited"
  /\ exitCode = 1
  /\ failedStep = "parseFindings"
  /\ index = 2
  /\ acts[1].parse = 1

\* C20: every run terminates; a run that ended without an error has left
\* every entry done with a bug-details object; and each done write stores
\* for its entry the status done and the findings parsed from the report of
\* its session.
C20_HappyRunCompletes ==
  /\ (pc = "start") ~> (pc = "exited")
  /\ [](pc = "exited" /\ failedStep = "" =>
          \A i \in 1..Len(bugs) :
            /\ FileStatus(file, i) = "done"
            /\ Get(file.v[i], "bug-details").t = "object")
  /\ [][(pc = "writeDone" /\ pc' = "loop") =>
          /\ Get(file'.v[index], "status") = JStr("done")
          /\ Get(file'.v[index], "bug-details") = Stringify(parseFindings(report))]_vars

\* A run over two pending entries ended without an error; the first entry
\* holds the findings {"probableCause":"X","reason":"Y","suggestedFixes":["Z"],
\* "confidenceScore":1} the assistant streamed.
C20_Witness ==
  /\ pc = "exited"
  /\ failedStep = ""
  /\ acts[1].parse = 1
  /\ acts[2].parse = 1
  /\ Get(file.v[1], "status") = JStr("done")
  /\ Get(file.v[1], "bug-details") = FindingsJSON(<<JStr("Z")>>)

\* ---------------------------------------------------------- lib/toolUsage

\* A string of the tool-usage helpers is the sequence of its characters.
Rep(c, n) == [i \in 1..n |-> c]

\* The default of formatSnippet's max.
MaxSnippetLength == 160

IsWhitespace(c) == c \in {" ", "\n", "\t"}

\* value.replace(/\s+/g, " "): every run of whitespace becomes one blank.
collapseWhitespace(value) ==
  SelectSeq([i \in 1..Len(value) |->
               IF ~IsWhitespace(value[i]) THEN value[i]
               ELSE IF i > 1 /\ IsWhitespace(value[i - 1]) THEN "" ELSE " "],
            LAMBDA c : c # "")

\* value.trim()
RECURSIVE trimStart(_)
trimStart(value) ==
  IF value # <<>> /\ IsWhitespace(Head(value)) THEN trimStart(Tail(value)) ELSE value
RECURSIVE trimEnd(_)
trimEnd(value) ==
  IF value # <<>> /\ IsWhitespace(value[Len(value)])
  THEN trimEnd(SubSeq(value, 1, Len(value) - 1))
  ELSE value

formatSnippet(value, max) ==
  LET collapsed == trimEnd(trimStart(collapseWhitespace(value)))
      trimmedLength == IF max - 3 > 0 THEN max - 3 ELSE 0
  IN IF Len(collapsed) = 0 THEN <<>>
     ELSE IF Len(collapsed) <= max THEN collapsed
     ELSE SubSeq(collapsed, 1, trimmedLength) \o <<".", ".", ".">>

\* The keys summarizeToolArgs looks at.
ArgKeys == {"path", "filePath", "pattern", "command", "description", "url",
            "question", "intent", "prompt", "input", "query"}

JBool(b) == [t |-> "boolean", v |-> b]

\* String(args) of a number of one digit or of a boolean.
StringOf(val) ==
  CASE val.t = "number" -> <<ToString(val.v)>>
    [] val.t = "boolean" -> IF val.v THEN <<"t", "r", "u", "e">>
                            ELSE <<"f", "a", "l", "s", "e">>

\* typeof record.key === "string" ? record.key : undefined
StringField(record, key) ==
  IF Get(record, key).t = "string" THEN Get(record, key) ELSE JUndef

\* a ?? b ?? ... over a sequence of values: the first that is defined.
RECURSIVE Coalesce(_)
Coalesce(values) ==
  IF values = <<>> THEN JUndef
  ELSE IF Head(values).t # "undefined" THEN Head(values)
  ELSE Coalesce(Tail(values))

\* A value used as a condition: a string is true when it is not empty.
Truthy(val) == val.t = "string" /\ val.v # <<>>

summarizeToolArgs(toolName, args) ==
  IF args.t \in {"null", "undefined"} THEN <<>>
  ELSE IF args.t = "string" THEN formatSnippet(args.v, MaxSnippetLength)
  ELSE IF args.t \notin {"object", "array"}
       THEN formatSnippet(StringOf(args), MaxSnippetLength)
  ELSE
    LET pathValue == StringField(args, "path")
        patternValue == StringField(args, "pattern")
        detail ==
          IF toolName = "bash"
          THEN Coalesce(<<StringField(args, "description"),
                          StringField(args, "command")>>)
          ELSE Coalesce(<<pathValue, StringField(args, "filePath"),
                          StringField(args, "url"), patternValue,
                          StringField(args, "description"),
                          StringField(args, "command"), StringField(args, "query"),
                          StringField(args, "question"), StringField(args, "intent"),
                          StringField(args, "prompt"), StringField(args, "input")>>)
    IN IF toolName \in {"rg", "glob"} /\ Truthy(patternValue)
       THEN IF Truthy(pathValue)
            THEN patternValue.v \o <<" ", "i", "n", " ">> \o pathValue.v
            ELSE patternValue.v
       ELSE IF Truthy(detail) THEN formatSnippet(detail.v, MaxSnippetLength)
       ELSE <<>>

\* The characters of the tool names of the model.
NameChars ==
  [rg |-> <<"r", "g">>, glob |-> <<"g", "l", "o", "b">>,
   bash |-> <<"b", "a", "s", "h">>, view |-> <<"v", "i", "e", "w">>]
ToolNames == DOMAIN NameChars

\* The three characters between the tool name and the detail; "->" stands
\* for the arrow character.
Separator == <<" ", "->", " ">>

formatToolUsage(toolName, args) ==
  LET detail == summarizeToolArgs(toolName, args)
  IN IF detail # <<>> THEN NameChars[toolName] \o Separator \o detail
     ELSE NameChars[toolName]

\* The strings an argument may hold: empty, blank, short, one with runs of
\* whitespace that collapses to the maximum, one of the maximum length, and
\* one that is one character longer.
ArgStrings ==
  { <<>>, <<" ", "\n">>, <<"s", "r", "c">>,
    <<" ">> \o Rep("a", MaxSnippetLength - 2) \o <<" ", "\t", " ">> \o <<"b">>,
    Rep("a", MaxSnippetLength),
    Rep("a", MaxSnippetLength + 1) }

\* event.data.arguments: nothing, a string, a scalar, an array, or an object
\* with one or two of the keys set, to a string or to a number.
ToolArgs ==
  {JNull, JUndef, JNum(7), JBool(TRUE), JArr(<<>>)}
    \cup { JStr(s) : s \in ArgStrings }
    \cup { JObj((k1 :> v1) @@ (k2 :> JStr(s2))) :
             k1 \in ArgKeys, v1 \in {JStr(s) : s \in ArgStrings} \cup {JNum(7)},
             k2 \in {"path", "pattern", "command", "description"},
             s2 \in {<<>>, <<"s", "r", "c">>, Rep("a", MaxSnippetLength + 1)} }

\* formatToolUsage is about to be applied to a tool name and its arguments.
InitToolUsage ==
  /\ MainStart({JArr(<<>>)})
  /\ OutIdle
  /\ messages = <<>>
  /\ PathIdle
  /\ ret = NoCompletion
  /\ call \in { [fn |-> "formatToolUsage", toolName |-> n, args |-> a] :
                  n \in ToolNames, a \in ToolArgs }

\* tool.execution_start: formatToolUsage(event.data.toolName,
\* event.data.arguments).
FormatToolUsage ==
  /\ call.fn = "formatToolUsage"
  /\ ret = NoCompletion
  /\ ret' = Return(formatToolUsage(call.toolName, call.args))
  /\ UNCHANGED <<mainVars, taskVars, histVars, outVars, messages, call, pathVars>>

SpecToolUsage == InitToolUsage /\ [][FormatToolUsage]_vars

\* C21: the argument summary of every status notice formatToolUsage builds,
\* the part after the tool name and the separator, has at most 160
\* characters, for every tool name and argument value.
C21_SummaryCapped ==
  (call.fn = "formatToolUsage" /\ ret.kind = "return") =>
    Len(ret.value) <= Len(NameChars[call.toolName]) + Len(Separator) + MaxSnippetLength

\* C22: the output channels are separate: whatever is on the standard
\* output was written as report content; no status function of lib/logging
\* and nothing else adds a byte to it.
C22_StdoutIsReportOnly ==
  \A i \in 1..Len(stdout) : stdout[i].by = "report"

\* ---------------------------------------------------------- paths of main

\* A path is the sequence of its characters; the separator is "/".
IsAbsolute(p) == p # <<>> /\ Head(p) = "/"

\* value.split(path.sep).filter(Boolean): the segments of a path.
RECURSIVE Split(_)
Split(p) ==
  IF p = <<>> THEN <<>>
  ELSE IF Head(p) = "/" THEN Split(Tail(p))
  ELSE LET n == CHOOSE i \in 1..Len(p) :
                  /\ i = Len(p) \/ p[i + 1] = "/"
                  /\ \A j \in 1..i : p[j] # "/"
       IN <<SubSeq(p, 1, n)>> \o Split(SubSeq(p, n + 1, Len(p)))

\* The segments with "." dropped and ".." applied, as path.resolve and
\* path.join normalise them.
RECURSIVE Normalize(_, _)
Normalize(done, parts) ==
  IF parts = <<>> THEN done
  ELSE Normalize(CASE Head(parts) = <<".">> -> done
                   [] Head(parts) = <<".", ".">> ->
                        SubSeq(done, 1, Len(done) - 1)
                   [] OTHER -> Append(done, Head(parts)),
                 Tail(parts))

\* path.join(root, ...parts) for the root "/".
RECURSIVE pathJoin(_)
pathJoin(parts) ==
  IF parts = <<>> THEN <<"/">>
  ELSE IF Len(parts) = 1 THEN <<"/">> \o parts[1]
  ELSE pathJoin(SubSeq(parts, 1, Len(parts) - 1)) \o <<"/">> \o parts[Len(parts)]

\* path.resolve(...paths) in a process whose working directory is dir: the
\* paths are taken from the right until one is absolute.
RECURSIVE ResolveRaw(_, _)
ResolveRaw(dir, paths) ==
  IF paths = <<>> THEN dir
  ELSE IF IsAbsolute(paths[Len(paths)]) THEN paths[Len(paths)]
  ELSE ResolveRaw(dir, SubSeq(paths, 1, Len(paths) - 1)) \o <<"/">>
         \o paths[Len(paths)]
pathResolve(dir, paths) == pathJoin(Normalize(<<>>, Split(ResolveRaw(dir, paths))))

\* Mutant of matchIndex: the comparison stops after the first segment.
matchIndexFirstOnly(commonParts, parts) ==
  IF commonParts # <<>> /\ parts # <<>> /\ commonParts[1] = parts[1] THEN 1 ELSE 0

\* The while loop of findCommonAncestor: the number of leading segments on
\* which commonParts and parts agree.
matchIndex(commonParts, parts) ==
  CHOOSE m \in 0..Len(commonParts) :
    /\ m <= Len(parts)
    /\ \A i \in 1..m : commonParts[i] = parts[i]
    /\ ~(m < Len(commonParts) /\ m < Len(parts) /\ commonParts[m + 1] = parts[m + 1])
    /\ \A k \in 0..(m - 1) :
         k < Len(commonParts) /\ k < Len(parts) /\ commonParts[k + 1] = parts[k + 1]

\* The for loop of findCommonAncestor over resolved.slice(1).
RECURSIVE CommonParts(_, _)
CommonParts(commonParts, resolved) ==
  IF resolved = <<>> THEN commonParts
  ELSE CommonParts(SubSeq(commonParts, 1, matchIndex(commonParts, Split(Head(resolved)))),
                   Tail(resolved))

\* findCommonAncestor(repoPaths) in a process whose working directory is dir.
findCommonAncestor(dir, paths) ==
  IF Len(paths) = 0 THEN Throw("At least one repository path must be provided.")
  ELSE LET resolved == [i \in 1..Len(paths) |-> pathResolve(dir, <<paths[i]>>)]
       IN Return(pathJoin(CommonParts(Split(resolved[1]), Tail(resolved))))

\* The paths of the inputs, the longest first.
PathAB == <<"/", "a", "/", "b">>
PathStrings ==
  { <<"/", "a">>, PathAB \o <<"c">>, PathAB \o <<"d">>, PathAB \o <<"/", "c">>,
    PathAB \o <<"/", "d">>, PathAB \o <<"/", "c", "/", ".", ".", "/", "d", "/">>,
    <<"/", "e">>, <<"b", "/", "c">> }

\* The working directories of the process.
Cwds == {<<"/", "a">>, <<"/", "e">>}

\* The number of paths of one call.
MaxPaths == 3

PathLists == UNION { [1..n -> PathStrings] : n \in 0..MaxPaths }

\* findCommonAncestor is about to be applied to a list of paths.
InitAncestor ==
  /\ MainStart({JArr(<<>>)})
  /\ OutIdle
  /\ messages = <<>>
  /\ PathIdle
  /\ ret = NoCompletion
  /\ call \in { [fn |-> "findCommonAncestor", cwd |-> d, paths |-> ps] :
                  d \in Cwds, ps \in PathLists }

FindCommonAncestor ==
  /\ call.fn = "findCommonAncestor"
  /\ ret = NoCompletion
  /\ ret' = findCommonAncestor(call.cwd, call.paths)
  /\ UNCHANGED <<mainVars, taskVars, histVars, outVars, messages, call, pathVars>>

SpecAncestor == InitAncestor /\ [][FindCommonAncestor]_vars

\* The segments of the i-th path of the call, resolved.
ResolvedParts(i) == Split(pathResolve(call.cwd, <<call.paths[i]>>))

\* C23: findCommonAncestor returns the longest prefix of whole path segments
\* that all the resolved paths share: the result is a segment prefix of
\* every path, no further segment is shared by all of them, and a single
\* path is returned itself.
C23_LongestSharedSegmentPrefix ==
  (call.fn = "findCommonAncestor" /\ ret.kind = "return") =>
    LET common == Split(ret.value)
        n == Len(call.paths)
    IN /\ ret.value = pathJoin(common)
       /\ \A i \in 1..n :
            /\ Len(common) <= Len(ResolvedParts(i))
            /\ SubSeq(ResolvedParts(i), 1, Len(common)) = common
       /\ ~ \E seg \in { ResolvedParts(1)[k] : k \in 1..Len(ResolvedParts(1)) } :
              \A i \in 1..n :
                /\ Len(ResolvedParts(i)) > Len(common)
                /\ ResolvedParts(i)[Len(common) + 1] = seg
       /\ n = 1 => ret.value = pathResolve(call.cwd, <<call.paths[1]>>)

\* /a/b/c and /a/b/d give /a/b, and /a/bc and /a/bd give /a.
C23_Witness ==
  /\ call.fn = "findCommonAncestor"
  /\ ret.kind = "return"
  /\ \/ /\ call.paths = <<PathAB \o <<"/", "c">>, PathAB \o <<"/", "d">>>>
        /\ ret.value = PathAB
     \/ /\ call.paths = <<PathAB \o <<"c">>, PathAB \o <<"d">>>>
        /\ ret.value = <<"/", "a">>

\* ------------------------------------------------------- resolveRepoPaths

\* The file system of the inputs: the directories, and the one file.
Directories ==
  { <<"/", "a">>, PathAB, PathAB \o <<"/", "c">>, PathAB \o <<"/", "d">>,
    <<"/", "e">> }
Files == { PathAB \o <<"c">> }

\* The rejections of the stat calls of resolveRepoPaths: a path that is
\* missing, or one that is no directory.
RepoPathErrors(resolved) ==
  { "Repository path not found" :
      i \in { k \in 1..Len(resolved) : resolved[k] \notin Directories \cup Files } }
  \cup
  { "Repository path is not a directory" :
      i \in { k \in 1..Len(resolved) : resolved[k] \in Files } }

\* Mutant of resolveRepoPaths: the resolved paths are returned as they are.
resolveRepoPathsKeepsAll(dir, repoUrls, baseDir) ==
  LET resolved == [i \in 1..Len(repoUrls) |-> pathResolve(dir, <<baseDir, repoUrls[i]>>)]
  IN IF Len(repoUrls) = 0 \/ RepoPathErrors(resolved) # {}
     THEN {Throw("resolveRepoPaths")}
     ELSE {Return(resolved)}

\* resolveRepoPaths(repoUrls, baseDir) in a process whose working directory
\* is dir: the completions it may have.  Promise.all rejects with the
\* rejection that comes first, whichever it is.
resolveRepoPaths(dir, repoUrls, baseDir) ==
  LET resolved == [i \in 1..Len(repoUrls) |-> pathResolve(dir, <<baseDir, repoUrls[i]>>)]
  IN IF Len(repoUrls) = 0
     THEN {Throw("At least one repository path must be provided.")}
     ELSE IF RepoPathErrors(resolved) # {}
     THEN {Throw(e) : e \in RepoPathErrors(resolved)}
     ELSE {Return(Dedupe(resolved))}

\* resolveRepoPaths is about to be applied to a list of repoUrls; input
\* holds the list the first application was given.
InitResolve ==
  /\ MainStart({JArr(<<>>)})
  /\ OutIdle
  /\ messages = <<>>
  /\ PathIdle
  /\ ret = NoCompletion
  /\ call \in { [fn |-> "resolveRepoPaths", cwd |-> d, baseDir |-> b, repoUrls |-> ps,
                 input |-> ps, round |-> 1] :
                  d \in Cwds, b \in Cwds, ps \in PathLists }

ResolveRepoPathsCall ==
  /\ call.fn = "resolveRepoPaths"
  /\ ret = NoCompletion
  /\ ret' \in resolveRepoPaths(call.cwd, call.repoUrls, call.baseDir)
  /\ UNCHANGED <<mainVars, taskVars, histVars, outVars, messages, call, pathVars>>

\* The paths the first application returned are given to a second one.
ResolveRepoPathsAgain ==
  /\ call.fn = "resolveRepoPaths"
  /\ call.round = 1
  /\ ret.kind = "return"
  /\ call' = [call EXCEPT !.repoUrls = ret.value, !.round = 2]
  /\ ret' = NoCompletion
  /\ UNCHANGED <<mainVars, taskVars, histVars, outVars, messages, pathVars>>

SpecResolve == InitResolve /\ [][ResolveRepoPathsCall \/ ResolveRepoPathsAgain]_vars

\* The i-th path of the first application, resolved against its base.
ResolvedInput(i) == pathResolve(call.cwd, <<call.baseDir, call.input[i]>>)

\* C24: resolveRepoPaths fails as a whole exactly when the list is empty or
\* one of its paths is missing or no directory; otherwise it returns the
\* resolved paths without duplicates in the order of their first
\* occurrence, and applying it to its own result returns that result.
C24_ResolveDedupesIdempotently ==
  (call.fn = "resolveRepoPaths" /\ ret # NoCompletion) =>
    LET n == Len(call.input)
        bad == n = 0 \/ \E i \in 1..n : ResolvedInput(i) \notin Directories
    IN IF call.round = 1
       THEN /\ ret.kind = "throw" <=> bad
            /\ ret.kind = "return" =>
                 /\ { ret.value[k] : k \in 1..Len(ret.value) }
                      = { ResolvedInput(i) : i \in 1..n }
                 /\ \A k, l \in 1..Len(ret.value) :
                      k < l =>
                        /\ ret.value[k] # ret.value[l]
                        /\ \E i \in 1..n :
                             /\ ResolvedInput(i) = ret.value[k]
                             /\ \A j \in 1..i : ResolvedInput(j) # ret.value[l]
       ELSE ret = Return(call.repoUrls)

\* A list with a repeated repository was resolved twice.
C24_Witness ==
  /\ call.fn = "resolveRepoPaths"
  /\ call.round = 2
  /\ ret.kind = "return"
  /\ Len(ret.value) = 2
  /\ Len(call.input) = 3

\* C25: the steps of runCopilotSession come in the order connect, create
\* session, register listeners, send, collect, destroy, stop: for every bug
\* the session was created only after start() had completed, the listeners
\* were registered on a created session, the prompt was sent only after the
\* listeners were registered, the report was collected only after a
\* sendAndWait that completed, the session was destroyed only after the try
\* block had completed, and a client whose session was created was stopped
\* only after destroy() had been called.
C25_LifecycleOrder ==
  \A i \in 1..NumBugs :
    LET a == acts[i]
    IN /\ a.session <= a.start
       /\ a.listen <= a.session
       /\ a.send <= a.listen
       /\ a.collect + a.rejected <= a.send
       /\ a.destroy <= a.session
       /\ (a.destroy = 1 /\ i = index /\ task = "analysis") => primary # NoCompletion
       /\ (a.collect = 1 /\ i = index /\ task = "analysis") => primary.kind = "return"
       /\ a.stop = 1 => a.destroy = a.session

\* A session went through every step, from the connection to the stop of
\* the client.
C25_Witness ==
  \E i \in 1..NumBugs :
    /\ acts[i].start = 1 /\ acts[i].session = 1 /\ acts[i].listen = 1
    /\ acts[i].send = 1 /\ acts[i].collect = 1 /\ acts[i].destroy = 1
    /\ acts[i].stop = 1

\* What the listeners have collected after the message events ms, the other
\* events and the debug setting left aside: whether a delta was seen, and
\* the text.
RECURSIVE Collected(_)
Collected(ms) ==
  IF ms = <<>> THEN [streamed |-> FALSE, content |-> <<>>]
  ELSE LET before == Collected(SubSeq(ms, 1, Len(ms) - 1))
           m == ms[Len(ms)]
       IN IF m.kind = "delta"
          THEN [streamed |-> TRUE, content |-> before.content \o m.content]
          ELSE IF ~before.streamed \/ before.content = <<>>
          THEN [before EXCEPT !.content = m.content]
          ELSE before

\* C26: the reasoning deltas and the events other than message_delta and
\* message are display only: whatever the debug setting and whatever other
\* events came in between, the text collected so far and the report
\* returned are those the message events alone determine.
C26_ReportFromMessagesOnly ==
  /\ (task = "analysis" /\ spc = "waiting") =>
       /\ reportContent = Collected(messages).content
       /\ streamedOutput = Collected(messages).streamed
  /\ (task = "analysis" /\ acts[index].collect = 1) =>
       /\ finalReport = Collected(messages).content
       /\ primary = Return(finalReport)

\* A report was collected from a session in which a reasoning delta came
\* in and was displayed before the message.
C26_Witness ==
  /\ task = "analysis"
  /\ acts[index].collect = 1
  /\ finalReport # <<>>
  /\ Len(messages) = 1
  /\ debugLog
  /\ Len(stdout) > 1
  /\ stdout[1].by = "thinking"

\* The texts of the report chunks on the standard output, in order.
ReportChunks(out) ==
  LET chunks == SelectSeq(out, LAMBDA c : c.by = "report")
  IN [i \in 1..Len(chunks) |-> chunks[i].text]

\* The contents of the message_delta events of ms, concatenated.
RECURSIVE DeltaText(_)
DeltaText(ms) ==
  IF ms = <<>> THEN <<>>
  ELSE DeltaText(SubSeq(ms, 1, Len(ms) - 1))
         \o (IF ms[Len(ms)].kind = "delta" THEN ms[Len(ms)].content ELSE <<>>)

\* C27: the terminal message is taken either from the streamed deltas or
\* from one final payload, never both: an assistant.message that comes after
\* a message_delta of the session is neither written to the standard output
\* nor added to the collected text; one that comes when no delta was
\* received is written and collected; and the collected text is the text of
\* the deltas or one payload.
C27_DeltasOrPayload ==
  [][(Len(messages') = Len(messages) + 1) =>
       LET content == messages'[Len(messages')].content
       IN IF messages'[Len(messages')].kind = "delta"
          THEN reportContent' = DeltaText(messages')
          ELSE IF \E j \in 1..Len(messages) : messages[j].kind = "delta"
          THEN /\ reportContent' = reportContent
               /\ ReportChunks(stdout') = ReportChunks(stdout)
          ELSE /\ reportContent' = content
               /\ ReportChunks(stdout') =
                    ReportChunks(stdout) \o (IF content = <<>> THEN <<>> ELSE <<content>>)
     ]_vars

\* C28: once an error has escaped a step of the run, the run has ended, and
\* every entry after the one being processed had no in-progress write, no
\* path resolution, no doc generation and no session in this run, is in
\* memory as it was read, and has in the file the status it had when the
\* run started.
C28_LaterEntriesUntouched ==
  (failedStep # "" /\ Len(readBugs) > 0) =>
    /\ pc = "exited"
    /\ \A j \in (index + 1)..NumBugs :
         /\ acts[j] = NoActs
         /\ bugs[j] = readBugs[j]
         /\ FileStatus(file, j) = currentStatus(readBugs[j])

\* The session of the first entry failed after its in-progress write, and a
\* second entry was waiting as todo.
C28_Witness ==
  /\ pc = "exited"
  /\ failedStep = "sendAndWait"
  /\ index = 1
  /\ FileStatus(file, 1) = "in-progress"
  /\ NumBugs > 1
  /\ currentStatus(readBugs[NumBugs]) = "todo"

\* C29: every content the tool has written to the bug file is accepted by
\* its own readBugInput, so that a rerun is never stopped by the tool's own
\* output.
C29_WrittenFileIsReadable ==
  (writes > 0 \/ run > 1) => parseBugInputOk(file)

\* ------------------------------------------- main: paths and process.chdir

\* path.dirname of an absolute normalised path.
pathDirname(p) == pathJoin(SubSeq(Split(p), 1, Len(Split(p)) - 1))

\* The bug file argument: relative to the working directory, or absolute.
BugFileArgs == { <<"f">>, <<"b", "/", "f">>, <<"/", "a", "/", "f">> }

\* The localRepoUrls of an entry: absolute and relative paths.
RepoUrlLists ==
  UNION { [1..n -> { PathAB \o <<"/", "c">>, <<"b", "/", "c">>, <<"c">>, <<"/", "e">> }] :
            n \in 1..2 }

\* The imagePaths of an entry: none, or the one file of the file system
\* given relative to /a.
ImagePathLists == { <<>>, <<<<"b", "c">>>> }

\* The completions of resolveImagePaths(imagePaths, baseDir).
resolveImagePaths(dir, paths, baseDir) ==
  LET resolved == [i \in 1..Len(paths) |-> pathResolve(dir, <<baseDir, paths[i]>>)]
  IN IF \E i \in 1..Len(resolved) : resolved[i] \notin Files
     THEN {Throw("resolveImagePaths")}
     ELSE {Return(Dedupe(resolved))}

\* main is started in a working directory with a bug file argument; the
\* entries of the bug file are those of the call.
InitPaths ==
  /\ MainStart({JArr(<<>>)})
  /\ OutIdle
  /\ messages = <<>>
  /\ ret = NoCompletion
  /\ call \in { [fn |-> "main", cwd |-> d, arg |-> a, entries |-> es] :
                  d \in Cwds, a \in BugFileArgs,
                  es \in [1..NumBugs -> [repoUrls : RepoUrlLists,
                                         imagePaths : ImagePathLists]] }
  /\ cwd = call.cwd
  /\ bugJsonPath = <<>>
  /\ bugFileDir = <<>>
  /\ targets = <<>>

\* bugJsonPath = path.resolve(args[0]); bugFileDir = path.dirname(bugJsonPath).
PathsStart ==
  /\ call.fn = "main"
  /\ pc = "start"
  /\ bugJsonPath' = pathResolve(cwd, <<call.arg>>)
  /\ bugFileDir' = pathDirname(pathResolve(cwd, <<call.arg>>))
  /\ pc' = "writeInProgress"
  /\ UNCHANGED <<file, docs, run, exitCode, bugs, readBugs, index, repoPaths,
                 imagePaths, docIdx, report>>
  /\ UNCHANGED <<taskVars, histVars, outVars, messages, call, ret, cwd, targets>>

\* await writeBugInput(bugJsonPath, bugs), for the in-progress entry.
PathsWriteInProgress ==
  /\ call.fn = "main"
  /\ pc = "writeInProgress"
  /\ index <= NumBugs
  /\ targets' = Append(targets, bugJsonPath)
  /\ pc' = "resolveRepos"
  /\ UNCHANGED <<file, docs, run, exitCode, bugs, readBugs, index, repoPaths,
                 imagePaths, docIdx, report>>
  /\ UNCHANGED <<taskVars, histVars, outVars, messages, call, ret, cwd, bugJsonPath,
                 bugFileDir>>

\* Mutant of PathsResolve: the paths are resolved against the working
\* directory of the moment.
PathsResolveAgainstCwd ==
  /\ call.fn = "main"
  /\ pc = "resolveRepos"
  /\ \E r \in resolveRepoPaths(cwd, call.entries[index].repoUrls, cwd),
        m \in resolveImagePaths(cwd, call.entries[index].imagePaths, cwd) :
       IF r.kind = "return" /\ m.kind = "return"
       THEN /\ repoPaths' = r.value
            /\ imagePaths' = m.value
            /\ pc' = "chdir"
            /\ UNCHANGED exitCode
       ELSE /\ pc' = "exited"
            /\ exitCode' = 1
            /\ UNCHANGED <<repoPaths, imagePaths>>
  /\ UNCHANGED <<file, docs, run, bugs, readBugs, index, docIdx, report>>
  /\ UNCHANGED <<taskVars, histVars, outVars, messages, call, ret, pathVars>>

\* repoPaths = await resolveRepoPaths(localRepoUrls, bugFileDir);
\* imagePaths = await resolveImagePaths(imagePaths, bugFileDir).
PathsResolve ==
  /\ call.fn = "main"
  /\ pc = "resolveRepos"
  /\ \E r \in resolveRepoPaths(cwd, call.entries[index].repoUrls, bugFileDir),
        m \in resolveImagePaths(cwd, call.entries[index].imagePaths, bugFileDir) :
       IF r.kind = "return" /\ m.kind = "return"
       THEN /\ repoPaths' = r.value
            /\ imagePaths' = m.value
            /\ pc' = "chdir"
            /\ UNCHANGED exitCode
       ELSE /\ pc' = "exited"
            /\ exitCode' = 1
            /\ UNCHANGED <<repoPaths, imagePaths>>
  /\ UNCHANGED <<file, docs, run, bugs, readBugs, index, docIdx, report>>
  /\ UNCHANGED <<taskVars, histVars, outVars, messages, call, ret, pathVars>>

\* process.chdir(findCommonAncestor(repoPaths)), then the session.
PathsChdir ==
  /\ call.fn = "main"
  /\ pc = "chdir"
  /\ cwd' = findCommonAncestor(cwd, repoPaths).value
  /\ pc' = "writeDone"
  /\ UNCHANGED <<file, docs, run, exitCode, bugs, readBugs, index, repoPaths,
                 imagePaths, docIdx, report>>
  /\ UNCHANGED <<taskVars, histVars, outVars, messages, call, ret, bugJsonPath,
                 bugFileDir, targets>>

\* await writeBugInput(bugJsonPath, bugs), for the done entry; then the next
\* entry.
PathsWriteDone ==
  /\ call.fn = "main"
  /\ pc = "writeDone"
  /\ targets' = Append(targets, bugJsonPath)
  /\ index' = index + 1
  /\ pc' = IF index < NumBugs THEN "writeInProgress" ELSE "exited"
  /\ UNCHANGED <<file, docs, run, exitCode, bugs, readBugs, repoPaths,
                 imagePaths, docIdx, report>>
  /\ UNCHANGED <<taskVars, histVars, outVars, messages, call, ret, cwd, bugJsonPath,
                 bugFileDir>>

SpecPaths ==
  InitPaths
    /\ [][PathsStart \/ PathsWriteInProgress \/ PathsResolve \/ PathsChdir
            \/ PathsWriteDone]_vars

\* The bug file and its directory as the working directory of the start
\* gives them.
StartBugFile == pathResolve(call.cwd, <<call.arg>>)
StartBugDir == pathDirname(StartBugFile)

\* C30: the change of the working directory made for one bug does not reach
\* the later steps: every write goes to the bug file path that the working
\* directory of the start gives, and the repository and image paths of every
\* entry are those its urls give against the directory of that path.
C30_ChdirDoesNotLeak ==
  call.fn = "main" =>
    /\ \A k \in 1..Len(targets) : targets[k] = StartBugFile
    /\ pc \in {"chdir", "writeDone"} =>
         /\ \A k \in 1..Len(repoPaths) :
              \E u \in 1..Len(call.entries[index].repoUrls) :
                repoPaths[k] =
                  pathResolve(call.cwd, <<StartBugDir, call.entries[index].repoUrls[u]>>)
         /\ \A u \in 1..Len(call.entries[index].repoUrls) :
              \E k \in 1..Len(repoPaths) :
                repoPaths[k] =
                  pathResolve(call.cwd, <<StartBugDir, call.entries[index].repoUrls[u]>>)
         /\ \A k \in 1..Len(imagePaths) :
              \E u \in 1..Len(call.entries[index].imagePaths) :
                imagePaths[k] =
                  pathResolve(call.cwd, <<StartBugDir, call.entries[index].imagePaths[u]>>)

\* The second entry was resolved and written after the first one had moved
\* the process to another directory; the bug file and a repository of the
\* second entry were given as relative paths.
C30_Witness ==
  /\ call.fn = "main"
  /\ pc = "exited"
  /\ index = NumBugs + 1
  /\ cwd # call.cwd
  /\ ~IsAbsolute(call.arg)
  /\ ~IsAbsolute(call.entries[NumBugs].repoUrls[1])
  /\ Len(targets) = 2 * NumBugs

=============================================================================
